---- MODULE Spec2Model ----
(***************************************************************************)
(* A model of the terminal session engine of webtunnel                     *)
(* (src/internal/services/terminal/service.go): the CircularBuffer, the    *)
(* session registry (CreateSession, GetSession, KillSession) and the       *)
(* per-session tasks (output pump, exit waiter, AttachWebSocket, inbound   *)
(* reader).                                                                *)
(*                                                                         *)
(* The specifications share the variables:                                 *)
(*   SpecBuffer   - sequences of CircularBuffer.Write calls;               *)
(*   SpecRegistry - CreateSession / KillSession / process exit on an       *)
(*                  initially empty table, for every admission policy;     *)
(*   SpecAdmit    - one user creating sessions with every command;         *)
(*   Spec         - the tasks of registered sessions interleaved step by   *)
(*                  step with KillSession and AttachWebSocket callers;     *)
(*   SpecFanOut   - the pump of a session with two attached connections    *)
(*                  and sends that fail;                                   *)
(*   SpecReaper   - the clock, CleanupStaleSessions and Shutdown;          *)
(*   SpecList     - ListSessions over the tables of two users;             *)
(*   SpecInput    - SendInput calls of a reader, with a kill and an exit;  *)
(*   SpecDispatch - the readers' resize, ping and other messages;          *)
(*   SpecLive     - the tasks of a session under fair scheduling;          *)
(*   SpecLocks    - s.mu and session.connMu with the fan-out loop step by  *)
(*                  step;                                                  *)
(*   SpecFrame    - KillSession over two sessions of two users;            *)
(*   SpecIDs      - CreateSession with the ID computed from the clock;     *)
(*   SpecQuota    - creation, kill, exit, reaper and shutdown for every    *)
(*                  per-user quota;                                        *)
(*   SpecDeadline - the readers' 60 second read deadline while the pump    *)
(*                  streams output.                                        *)
(***************************************************************************)
EXTENDS Integers, Sequences, FiniteSets, TLC

VARIABLES
    cb,        \* SpecBuffer: the CircularBuffer under test
    written,   \* SpecBuffer: every byte handed to Write so far, in order (history)
    lastWrite, \* SpecBuffer: the argument of the most recent Write call (history)
    config,    \* Service.config: the admission policy, fixed at construction
    sessions,  \* Service.sessions: session ID -> session object (0: no entry)
    sess,      \* the Session objects ever allocated, by object number
    pump,      \* per Session object: the monitorOutput goroutine
    waiter,    \* per Session object: the cmd.Wait goroutine of startProcess
    mu,        \* Service.mu: the caller holding the write lock, or NoOne
    kill,      \* per KillSession caller: its position, argument and result
    conn,      \* per websocket.Conn: closed flag and the messages written to it
    att,       \* per websocket.Conn: the AttachWebSocket call made for it
    rdr,       \* per websocket.Conn: the handleWebSocketMessages goroutine
    ret,       \* the last CreateSession call: its arguments and its result
    snd,       \* per caller of SendInput: its position, argument and result
    inb,       \* the inbound messages read so far: their number, and the last one
    now        \* time.Now(), in ticks

vars == <<cb, written, lastWrite, config, sessions, sess, pump, waiter, mu, kill, conn, att,
          rdr, ret, snd, inb, now>>

bufVars == <<cb, written, lastWrite>>
inVars == <<snd, inb>>
svcVars == <<config, sessions, sess, pump, waiter, mu, kill, conn, att, rdr, ret, snd, inb,
             now>>

----------------------------------------------------------------------------
(* Bounds of the model. *)

\* SpecBuffer: capacities 1..MaxCap, byte values 1..MaxByte (0 is the zero byte of a
\* fresh buffer), at most MaxTotal bytes written
MaxCap == 3
MaxByte == 2
MaxTotal == 6
\* the longest single Write: longer than every capacity
MaxWriteLen == MaxCap + 1

Min(a, b) == IF a < b THEN a ELSE b

Bytes == 1..MaxByte

\* all byte sequences of length 0..n
SeqsUpTo(n) == UNION {[1..k -> Bytes] : k \in 0..n}

----------------------------------------------------------------------------
(* CircularBuffer *)

\* NewCircularBuffer(size): data holds size zero bytes, pos = 0, full = false
NewCircularBuffer(size) ==
    [data |-> [i \in 1..size |-> 0], size |-> size, pos |-> 0, full |-> FALSE]

\* one iteration of Write's loop: data[pos] = b; pos = (pos+1) % size;
\* if pos == 0 { full = true }.  data is 1-indexed here, pos stays 0-based.
WriteByte(b, c) ==
    LET npos == (c.pos + 1) % c.size
    IN  [c EXCEPT !.data[c.pos + 1] = b,
                  !.pos = npos,
                  !.full = IF npos = 0 THEN TRUE ELSE c.full]

RECURSIVE CBWrite(_, _)
\* CircularBuffer.Write(p): the loop over the bytes of p, in order
CBWrite(c, p) ==
    IF p = <<>> THEN c ELSE CBWrite(WriteByte(Head(p), c), Tail(p))

\* a mutant of Read: a full buffer is returned unrotated (data[0:size])
CBReadUnrotated(c) ==
    IF ~c.full /\ c.pos = 0 THEN <<>>
    ELSE IF c.full THEN c.data
    ELSE SubSeq(c.data, 1, c.pos)

\* CircularBuffer.Read(): nil when nothing was written; data[pos:] ++ data[:pos]
\* when full; data[:pos] otherwise
CBRead(c) ==
    IF ~c.full /\ c.pos = 0 THEN <<>>
    ELSE IF c.full
         THEN SubSeq(c.data, c.pos + 1, c.size) \o SubSeq(c.data, 1, c.pos)
         ELSE SubSeq(c.data, 1, c.pos)

----------------------------------------------------------------------------
(* The service: sets of the model *)

IDs == {"s1", "s2"}          \* the values generateSessionID can return
Users == {"u1", "u2"}        \* authenticated user identifiers
Conns == {"c1", "c2"}        \* websocket connections
Killers == {"k1", "k2"}      \* callers of KillSession
NoOne == "none"

\* A command is its sequence of whitespace-delimited tokens; two commands are
\* the same string exactly when they are the same token sequence.
Commands ==
    { <<"rm">>, <<"sudo">>, <<"dd">>, <<"ls">>, <<"echo">>,
      <<"rm", "-rf", "/">>, <<"sudo", "apt", "update">>, <<"echo", "rm">> }

\* the deny-list of the tests and of the demo server
DenyList == { <<"rm">>, <<"sudo">>, <<"dd">> }
\* the allow-lists tried: none configured, or one that also names a denied command
AllowLists == { {}, { <<"ls">>, <<"rm">> } }

\* sessions one behaviour may create, quota values tried
MaxObjs == 2
MaxQuota == 2
\* chunks a session's PTY produces; capacity of a session's outputBuf in the model
MaxChunks == 2
BufSize == 2

StatusRunning == "running"
StatusStopped == "stopped"
StatusError == "error"

\* the text of the welcome message, as one character distinct from every PTY byte
Banner == 0

\* one hour in ticks of the clock: the timeout written into CleanupStaleSessions
\* and the default of session.session_timeout
Hour == 2
\* the clock stops at MaxNow; session timeouts configured in SpecReaper: 1..MaxTimeout
MaxNow == 4
MaxTimeout == 3

Configs ==
    [MaxSessions : 1..MaxQuota, AllowedCommands : AllowLists, BlockedCommands : {DenyList},
     SessionTimeout : {Hour}]

Objs == 1..Len(sess)

----------------------------------------------------------------------------
(* Service.New and the idle callers *)

IdleKill == [pc |-> "idle", id |-> "s1", obj |-> 0, res |-> "", closed |-> {}]
IdleAttach == [pc |-> "idle", id |-> "s1", ref |-> 0, buffer |-> <<>>, err |-> ""]
NoCall == [op |-> "none", user |-> "u1", cmd |-> <<>>, err |-> ""]
IdleSend == [pc |-> "idle", id |-> "s1", obj |-> 0, res |-> ""]

\* JSON values of the fields of a resize payload: a number, a string, no field
JNum(n) == [t |-> "num", n |-> n]
JStr == [t |-> "str", n |-> 0]
JAbsent == [t |-> "absent", n |-> 0]

\* the Data of a message that is not a resize
NoPayload == [json |-> FALSE, cols |-> JAbsent, rows |-> JAbsent]

NoMessage == [n |-> 0, conn |-> "c1", type |-> "none", data |-> NoPayload]

\* New(config, logger): an empty table; nobody has called anything yet
New(cfg) ==
    /\ config = cfg
    /\ sessions = [id \in IDs |-> 0]
    /\ sess = <<>>
    /\ pump = <<>>
    /\ waiter = <<>>
    /\ mu = NoOne
    /\ kill = [k \in Killers |-> IdleKill]
    /\ conn = [c \in Conns |-> [closed |-> FALSE, recv |-> <<>>]]
    /\ att = [c \in Conns |-> IdleAttach]
    /\ rdr = [c \in Conns |-> "none"]
    /\ ret = NoCall
    /\ snd = [c \in Conns |-> IdleSend]
    /\ inb = NoMessage
    /\ now = 0

DefaultConfig ==
    [MaxSessions |-> MaxQuota, AllowedCommands |-> {}, BlockedCommands |-> DenyList,
     SessionTimeout |-> Hour]

----------------------------------------------------------------------------
(* SpecBuffer: a buffer of some capacity, and Write calls on it *)

BufWrite(p) ==
    /\ Len(written) + Len(p) <= MaxTotal
    /\ cb' = CBWrite(cb, p)
    /\ written' = written \o p
    /\ lastWrite' = p
    /\ UNCHANGED svcVars

InitBuffer ==
    /\ \E n \in 1..MaxCap : cb = NewCircularBuffer(n)
    /\ written = <<>>
    /\ lastWrite = <<>>
    /\ New(DefaultConfig)

NextBuffer == \E p \in SeqsUpTo(MaxWriteLen) : BufWrite(p)

SpecBuffer == InitBuffer /\ [][NextBuffer]_vars

\* the last n elements of s
LastN(s, n) == SubSeq(s, Len(s) - n + 1, Len(s))

\* C1: at any time Read returns exactly the most recent min(total written, N)
\* bytes handed to Write, in the order they were written.
C1_ReadReturnsMostRecent ==
    CBRead(cb) = LastN(written, Min(Len(written), cb.size))

\* C1 witness: more bytes than the capacity were written, the last Write alone
\* being longer than the capacity, and Read returns the wrapped-around tail.
C1_Witness ==
    /\ Len(lastWrite) > cb.size
    /\ Len(written) > Len(lastWrite)
    /\ cb.size >= 2
    /\ cb.pos # 0
    /\ CBRead(cb) = LastN(written, cb.size)
    /\ CBRead(cb) # cb.data

----------------------------------------------------------------------------
(* CreateSession *)

\* the first whitespace-delimited token of a command
FirstToken(command) == IF command = <<>> THEN "" ELSE command[1]

\* the sessions of the table, as objects
Registered == {sessions[id] : id \in {i \in IDs : sessions[i] # 0}}

\* a mutant of the quota scan: the owner test is inverted, the sessions of
\* the other users are counted
UserSessionsUnowned(userID) ==
    Cardinality({o \in Registered :
                    sess[o].UserID # userID /\ sess[o].Status = StatusRunning})

\* a mutant of the quota scan: sessions are counted whoever owns them
UserSessionsAnyOwner(userID) ==
    Cardinality({o \in Registered : sess[o].Status = StatusRunning})

\* the quota scan: the table's sessions with sess.UserID == userID and
\* sess.Status == StatusRunning
UserSessions(userID) ==
    Cardinality({o \in Registered :
                    sess[o].UserID = userID /\ sess[o].Status = StatusRunning})

\* a mutant of the allow-list check: an empty allow-list admits nothing
NotAllowedEvenIfEmpty(command) ==
    command \notin config.AllowedCommands

\* the allow-list check rejects: a list is configured and no entry equals
\* the command string
NotAllowed(command) ==
    /\ config.AllowedCommands # {}
    /\ ~ \E allowedCmd \in config.AllowedCommands : command = allowedCmd

\* the deny-list check rejects: some entry equals the command string
Blocked(command) ==
    \E blockedCmd \in config.BlockedCommands : command = blockedCmd

\* a mutant of the construction: the session as it is before startProcess
\* has run, with no process and no PTY yet
NewSessionUnstarted(sessionID, userID, command) ==
    [ID |-> sessionID, UserID |-> userID, Command |-> command,
     WorkingDir |-> <<"sessions", sessionID>>,
     Status |-> StatusRunning,
     LastActive |-> now,
     cancelled |-> FALSE,
     ptyClosed |-> TRUE,
     proc |-> "none",
     connections |-> {},
     outputBuf |-> NewCircularBuffer(BufSize),
     nread |-> 0,
     ptyIn |-> 0,
     rows |-> 0, cols |-> 0]

\* the Session literal of CreateSession followed by a successful startProcess:
\* Running, a live token, an empty connection set, an empty outputBuf, a
\* started process on an open PTY
NewSession(sessionID, userID, command) ==
    [ID |-> sessionID, UserID |-> userID, Command |-> command,
     WorkingDir |-> <<"sessions", sessionID>>,   \* <workingDir>/sessions/<ID>
     Status |-> StatusRunning,
     LastActive |-> now,
     cancelled |-> FALSE,       \* ctx: cancel() was called
     ptyClosed |-> FALSE,       \* pty: Close() was called
     proc |-> "running",        \* cmd.Process: "running" or "exited"
     connections |-> {},
     outputBuf |-> NewCircularBuffer(BufSize),
     nread |-> 0,               \* the PTY: chunks the pump has read from it
     ptyIn |-> 0,               \* the PTY: input writes it has accepted
     rows |-> 24, cols |-> 80]  \* the PTY: its geometry, set by startProcess

\* the goroutines startProcess starts: monitorOutput at the top of its loop,
\* the waiter blocked in cmd.Wait
\* (todo and to are the position of its fan-out loop: the connections of the
\* range not yet visited, and the connection whose WriteJSON call is running)
NewPump == [pc |-> "select", output |-> 0, todo |-> {}, to |-> NoOne]

\* a mutant of the failure paths: the session is put into the table before
\* startProcess runs and is left there when startProcess fails
CreateFailsRegistered(userID, command, err) ==
    /\ ret' = [op |-> "Create", user |-> userID, cmd |-> command, err |-> err]
    /\ IF err = "SpawnFailed" /\ Len(sess) < MaxObjs
         THEN /\ \E sessionID \in IDs :
                    /\ sess' = Append(sess, [NewSession(sessionID, userID, command)
                                               EXCEPT !.proc = "exited"])
                    /\ sessions' = [sessions EXCEPT ![sessionID] = Len(sess) + 1]
              /\ pump' = Append(pump, [NewPump EXCEPT !.pc = "done"])
              /\ waiter' = Append(waiter, "done")
              /\ UNCHANGED <<config, mu, kill, conn, att, rdr>>
         ELSE UNCHANGED <<config, sessions, sess, pump, waiter, mu, kill, conn, att, rdr>>

\* CreateSession failing with err: nothing but the caller's result changes
CreateFails(userID, command, err) ==
    /\ ret' = [op |-> "Create", user |-> userID, cmd |-> command, err |-> err]
    /\ UNCHANGED <<config, sessions, sess, pump, waiter, mu, kill, conn, att, rdr>>

\* CreateSession(userID, command, workingDir), the whole call under s.mu.Lock.
\* The ID comes from the clock (generateSessionID): any value of IDs.  MkdirAll
\* and startProcess fail or succeed as the host decides.
CreateSession(userID, command) ==
    /\ mu = NoOne
    /\ IF UserSessions(userID) >= config.MaxSessions
         THEN CreateFails(userID, command, "QuotaExceeded")
       ELSE IF NotAllowed(command)
         THEN CreateFails(userID, command, "CommandNotAllowed")
       ELSE IF Blocked(command)
         THEN CreateFails(userID, command, "CommandBlocked")
       ELSE \/ CreateFails(userID, command, "MkdirFailed")
            \/ CreateFails(userID, command, "SpawnFailed")
            \/ \E sessionID \in IDs :
                 /\ Len(sess) < MaxObjs
                 /\ sess' = Append(sess, NewSession(sessionID, userID, command))
                 /\ pump' = Append(pump, NewPump)
                 /\ waiter' = Append(waiter, "waiting")
                 /\ sessions' = [sessions EXCEPT ![sessionID] = Len(sess) + 1]
                 /\ ret' = [op |-> "Create", user |-> userID, cmd |-> command,
                            err |-> ""]
                 /\ UNCHANGED <<config, mu, kill, conn, att, rdr>>
    /\ UNCHANGED <<bufVars, inVars, now>>

\* GetSession(sessionID): the table's entry (0: not found), read under s.mu.RLock
GetSession(sessionID) == sessions[sessionID]

\* session.connMu can be taken for writing: no fan-out loop of the session's
\* pump holds it for reading (the write lock itself is taken and released
\* within one step of its holder)
ConnMuFree(o) == pump[o].pc # "range"

----------------------------------------------------------------------------
(* KillSession *)

\* a mutant of KillSession's first half: s.mu is released right after the
\* lookup instead of being held to the end of the call
KillLockReleased(k, sessionID) ==
    /\ kill[k].pc = "idle"
    /\ mu = NoOne
    /\ IF GetSession(sessionID) = 0
         THEN /\ kill' = [kill EXCEPT ![k] = [pc |-> "done", id |-> sessionID, obj |-> 0,
                                              res |-> "NotFound", closed |-> {}]]
              /\ UNCHANGED sess
         ELSE LET o == GetSession(sessionID) IN
              /\ sess' = [sess EXCEPT ![o].cancelled = TRUE, ![o].ptyClosed = TRUE,
                                      ![o].proc = "exited", ![o].Status = StatusStopped]
              /\ kill' = [kill EXCEPT ![k] = [pc |-> "locked", id |-> sessionID,
                                              obj |-> o, res |-> "",
                                              closed |-> sess[o].connections]]
    /\ UNCHANGED <<config, sessions, pump, waiter, mu, conn, att, rdr, ret>>
    /\ UNCHANGED <<bufVars, inVars, now>>

\* KillSession(sessionID), first half: s.mu.Lock; the lookup; on a miss the
\* error return; otherwise session.cancel(), pty.Close(), Process.Kill() and
\* Status = StatusStopped, with s.mu still held.  kill[k].closed collects the
\* connections that are in the session's set while the call runs (history).
KillLock(k, sessionID) ==
    /\ kill[k].pc = "idle"
    /\ mu = NoOne
    /\ IF GetSession(sessionID) = 0
         THEN /\ kill' = [kill EXCEPT ![k] = [pc |-> "done", id |-> sessionID, obj |-> 0,
                                              res |-> "NotFound", closed |-> {}]]
              /\ UNCHANGED <<sess, mu>>
         ELSE LET o == GetSession(sessionID) IN
              /\ sess' = [sess EXCEPT ![o].cancelled = TRUE, ![o].ptyClosed = TRUE,
                                      ![o].proc = "exited", ![o].Status = StatusStopped]
              /\ mu' = k
              /\ kill' = [kill EXCEPT ![k] = [pc |-> "locked", id |-> sessionID,
                                              obj |-> o, res |-> "",
                                              closed |-> sess[o].connections]]
    /\ UNCHANGED <<config, sessions, pump, waiter, conn, att, rdr, ret>>
    /\ UNCHANGED <<bufVars, inVars, now>>

\* a mutant of KillSession's second half: the connections are left open (as
\* CleanupStaleSessions and Shutdown leave them)
KillFinishNoClose(k) ==
    /\ kill[k].pc = "locked"
    /\ sessions' = [sessions EXCEPT ![kill[k].id] = 0]
    /\ mu' = IF mu = k THEN NoOne ELSE mu
    /\ kill' = [kill EXCEPT ![k].pc = "done", ![k].res = "ok",
                            ![k].closed = @ \cup sess[kill[k].obj].connections]
    /\ UNCHANGED <<config, sess, pump, waiter, conn, att, rdr, ret>>
    /\ UNCHANGED <<bufVars, inVars, now>>

\* a mutant of KillSession's second half: the connections of every session
\* are closed, not only those of the session being killed
KillFinishClosesAll(k) ==
    /\ kill[k].pc = "locked"
    /\ ConnMuFree(kill[k].obj)
    /\ conn' = [c \in Conns |-> [conn[c] EXCEPT !.closed = TRUE]]
    /\ sessions' = [sessions EXCEPT ![kill[k].id] = 0]
    /\ mu' = IF mu = k THEN NoOne ELSE mu
    /\ kill' = [kill EXCEPT ![k].pc = "done", ![k].res = "ok",
                            ![k].closed = @ \cup sess[kill[k].obj].connections]
    /\ UNCHANGED <<config, sess, pump, waiter, att, rdr, ret>>
    /\ UNCHANGED <<bufVars, inVars, now>>

\* KillSession, second half: under connMu.Lock, conn.Close() for every
\* connection of the set; delete(s.sessions, sessionID); return nil, which
\* releases s.mu
KillFinish(k) ==
    /\ kill[k].pc = "locked"
    /\ ConnMuFree(kill[k].obj)
    /\ conn' = [c \in Conns |->
                  IF c \in sess[kill[k].obj].connections
                    THEN [conn[c] EXCEPT !.closed = TRUE] ELSE conn[c]]
    /\ sessions' = [sessions EXCEPT ![kill[k].id] = 0]
    /\ mu' = IF mu = k THEN NoOne ELSE mu
    /\ kill' = [kill EXCEPT ![k].pc = "done", ![k].res = "ok",
                            ![k].closed = @ \cup sess[kill[k].obj].connections]
    /\ UNCHANGED <<config, sess, pump, waiter, att, rdr, ret>>
    /\ UNCHANGED <<bufVars, inVars, now>>

\* the caller of a finished KillSession makes its next call
KillReturn(k) ==
    /\ kill[k].pc = "done"
    /\ kill' = [kill EXCEPT ![k] = IdleKill]
    /\ UNCHANGED <<config, sessions, sess, pump, waiter, mu, conn, att, rdr, ret>>
    /\ UNCHANGED <<bufVars, inVars, now>>

----------------------------------------------------------------------------
(* The process and the exit waiter of startProcess *)

\* the session's process exits on its own
ProcessExit(o) ==
    /\ sess[o].proc = "running"
    /\ sess' = [sess EXCEPT ![o].proc = "exited"]
    /\ UNCHANGED <<config, sessions, pump, waiter, mu, kill, conn, att, rdr, ret>>
    /\ UNCHANGED <<bufVars, inVars, now>>

\* cmd.Wait() returns once the process has exited; then
\* session.Status = StatusStopped, with no lock held
ExitWaiter(o) ==
    /\ waiter[o] = "waiting"
    /\ sess[o].proc = "exited"
    /\ sess' = [sess EXCEPT ![o].Status = StatusStopped]
    /\ waiter' = [waiter EXCEPT ![o] = "done"]
    /\ UNCHANGED <<config, sessions, pump, mu, kill, conn, att, rdr, ret>>
    /\ UNCHANGED <<bufVars, inVars, now>>

----------------------------------------------------------------------------
(* SpecRegistry: an empty table under every admission policy; CreateSession, *)
(* KillSession and process exits in every order                              *)

InitRegistry ==
    /\ cb = NewCircularBuffer(1)
    /\ written = <<>>
    /\ lastWrite = <<>>
    /\ \E cfg \in Configs : New(cfg)

\* the commands SpecRegistry creates sessions with: one every policy admits,
\* one every policy rejects
QuotaCommands == { <<"ls">>, <<"rm">> }

NextRegistry ==
    \/ \E u \in Users, c \in QuotaCommands : CreateSession(u, c)
    \/ \E id \in IDs : KillLock("k1", id)
    \/ KillFinish("k1")
    \/ KillReturn("k1")
    \/ \E o \in Objs : ProcessExit(o)
    \/ \E o \in Objs : ExitWaiter(o)

SpecRegistry == InitRegistry /\ [][NextRegistry]_vars

----------------------------------------------------------------------------
(* SpecAdmit: one user creating sessions with every command of Commands,    *)
(* under every admission policy                                             *)

NextAdmit == \E c \in Commands : CreateSession("u1", c)

SpecAdmit == InitRegistry /\ [][NextAdmit]_vars

----------------------------------------------------------------------------
(* Claims about admission *)

\* the Running sessions of the table that userID owns, counted by table key
RunningOwnedBy(userID) ==
    Cardinality({id \in IDs : /\ sessions[id] # 0
                              /\ sess[sessions[id]].UserID = userID
                              /\ sess[sessions[id]].Status = StatusRunning})

\* C2: a CreateSession call by a user fails with the quota error exactly when
\* the table holds MaxSessions Running sessions owned by that user at the call;
\* sessions of other users and sessions that are not Running do not count.
C2_QuotaExactlyAtMax ==
    [][\A u \in Users, c \in QuotaCommands :
          CreateSession(u, c) =>
             (ret'.err = "QuotaExceeded" <=> RunningOwnedBy(u) = config.MaxSessions)]_vars

\* C2 witness: a user's Create has just been rejected for quota while the table
\* holds two Running sessions of that user, MaxSessions being two.
C2_Witness ==
    /\ ret.op = "Create"
    /\ ret.err = "QuotaExceeded"
    /\ config.MaxSessions = 2
    /\ RunningOwnedBy(ret.user) = 2

\* C3 (as claimed): a Create that passed the quota and allow-list checks, and
\* that the host did not fail, is rejected as blocked exactly when the first
\* token of its command is an entry of the deny-list; otherwise it succeeds.
C3_BlockedByFirstToken ==
    (ret.op = "Create" /\ ret.err \in {"", "CommandBlocked"})
       => (ret.err = "CommandBlocked"
             <=> <<FirstToken(ret.cmd)>> \in config.BlockedCommands)

\* C4 (as claimed): with a non-empty allow-list a Create is rejected as not
\* allowed exactly when its command is no entry of the list, and never with
\* an empty allow-list.
C4_NotAllowedWheneverAbsent ==
    ret.op = "Create"
       => (ret.err = "CommandNotAllowed"
             <=> (config.AllowedCommands # {} /\ ret.cmd \notin config.AllowedCommands))

\* C4 (amended): a Create that passed the quota check, which comes first, is
\* rejected as not allowed exactly when the allow-list is non-empty and the
\* command is no entry of it; a Create rejected for quota is never reported
\* as not allowed.
C4_NotAllowedAfterQuota ==
    ret.op = "Create"
       => /\ ret.err # "QuotaExceeded"
               => (ret.err = "CommandNotAllowed"
                     <=> (config.AllowedCommands # {}
                            /\ ret.cmd \notin config.AllowedCommands))
          /\ ret.err = "CommandNotAllowed"
               => (config.AllowedCommands # {} /\ ret.cmd \notin config.AllowedCommands)

\* C4 witness: with an allow-list configured and a session already registered,
\* a Create with a command outside the list has just been rejected as not allowed.
C4_Witness ==
    /\ ret.op = "Create"
    /\ ret.err = "CommandNotAllowed"
    /\ config.AllowedCommands # {}
    /\ ret.cmd \notin config.AllowedCommands
    /\ Registered # {}

\* C21: every session of the table, whenever a reader could look it up, is
\* fully constructed: it carries the ID it is registered under, its owner,
\* command and working directory, a token, a connection set, a ring buffer of
\* the configured capacity, a started process and a PTY handle.
C21_RegisteredIsConstructed ==
    \A id \in IDs :
       GetSession(id) # 0 =>
          LET session == sess[GetSession(id)] IN
            /\ session.ID = id
            /\ session.UserID \in Users
            /\ session.Command \in Commands
            /\ session.WorkingDir = <<"sessions", id>>
            /\ session.cancelled \in BOOLEAN
            /\ session.connections \subseteq Conns
            /\ session.outputBuf.size = BufSize
            /\ session.proc \in {"running", "exited"}
            /\ session.ptyClosed = FALSE \/ session.proc = "exited"

\* C21 witness: two sessions have been created and both are in the table,
\* each running its process on an open PTY.
C21_Witness ==
    /\ ret.op = "Create" /\ ret.err = ""
    /\ Cardinality(Registered) = 2
    /\ \A o \in Registered : sess[o].proc = "running" /\ ~sess[o].ptyClosed

\* C20: a CreateSession call that returns an error, whichever it is, leaves
\* the table and every session object as they were, and starts no task.
C20_FailedCreateChangesNothing ==
    [][\A c \in Commands :
          (CreateSession("u1", c) /\ ret'.err # "")
             => /\ sessions' = sessions
                /\ sess' = sess
                /\ pump' = pump
                /\ waiter' = waiter]_vars

\* C20 witness: with a session registered, a Create has just failed because
\* the process could not be started, and the table still holds that session
\* and nothing else.
C20_Witness ==
    /\ ret.op = "Create"
    /\ ret.err = "SpawnFailed"
    /\ Len(sess) = 1
    /\ Registered = {1}
    /\ sess[1].Status = StatusRunning

----------------------------------------------------------------------------
(* monitorOutput: the output pump of session object o *)

\* the "output" message carrying data for session object o; by names the task
\* that wrote it (history, not on the wire)
OutputMsg(o, data, by) ==
    [type |-> "output", data |-> data, session_id |-> sess[o].ID, by |-> by]

\* conn.WriteJSON(m) on connection c: it fails on a closed connection, and
\* otherwise the message is on the wire
Delivered(c, m) ==
    IF conn[c].closed THEN conn[c] ELSE [conn[c] EXCEPT !.recv = Append(@, m)]

\* the select at the top of the loop: return when ctx is done, else the default branch
PumpSelect(o) ==
    /\ pump[o].pc = "select"
    /\ pump' = [pump EXCEPT ![o].pc = IF sess[o].cancelled THEN "defer" ELSE "read"]
    /\ UNCHANGED <<config, sessions, sess, waiter, mu, kill, conn, att, rdr, ret>>
    /\ UNCHANGED <<bufVars, inVars, now>>

\* session.pty.Read(buffer) returns n > 0 bytes: the next chunk of PTY output
PumpReadData(o) ==
    /\ pump[o].pc = "read"
    /\ ~sess[o].ptyClosed
    /\ sess[o].nread < MaxChunks
    /\ sess' = [sess EXCEPT ![o].nread = @ + 1]
    /\ pump' = [pump EXCEPT ![o].pc = "write", ![o].output = sess[o].nread + 1]
    /\ UNCHANGED <<config, sessions, waiter, mu, kill, conn, att, rdr, ret>>
    /\ UNCHANGED <<bufVars, inVars, now>>

\* the read deadline passes with the process alive: os.IsTimeout(err), continue
PumpReadTimeout(o) ==
    /\ pump[o].pc = "read"
    /\ ~sess[o].ptyClosed
    /\ sess[o].proc = "running"
    /\ pump' = [pump EXCEPT ![o].pc = "select"]
    /\ UNCHANGED <<config, sessions, sess, waiter, mu, kill, conn, att, rdr, ret>>
    /\ UNCHANGED <<bufVars, inVars, now>>

\* the process has exited and the PTY reports end-of-stream: err == io.EOF, return
PumpReadEOF(o) ==
    /\ pump[o].pc = "read"
    /\ ~sess[o].ptyClosed
    /\ sess[o].proc = "exited"
    /\ pump' = [pump EXCEPT ![o].pc = "defer"]
    /\ UNCHANGED <<config, sessions, sess, waiter, mu, kill, conn, att, rdr, ret>>
    /\ UNCHANGED <<bufVars, inVars, now>>

\* any other read error: the PTY was closed (KillSession), or the exited
\* process's PTY reports an I/O error; session.Status = StatusError, return
PumpReadError(o) ==
    /\ pump[o].pc = "read"
    /\ sess[o].ptyClosed \/ sess[o].proc = "exited"
    /\ sess' = [sess EXCEPT ![o].Status = StatusError]
    /\ pump' = [pump EXCEPT ![o].pc = "defer"]
    /\ UNCHANGED <<config, sessions, waiter, mu, kill, conn, att, rdr, ret>>
    /\ UNCHANGED <<bufVars, inVars, now>>

\* a mutant of the buffer write: the chunk goes to the fan-out only
PumpBufWriteSkipped(o) ==
    /\ pump[o].pc = "write"
    /\ pump' = [pump EXCEPT ![o].pc = "fanout"]
    /\ UNCHANGED <<config, sessions, sess, waiter, mu, kill, conn, att, rdr, ret>>
    /\ UNCHANGED <<bufVars, inVars, now>>

\* session.outputBuf.Write(output)
PumpBufWrite(o) ==
    /\ pump[o].pc = "write"
    /\ sess' = [sess EXCEPT ![o].outputBuf = CBWrite(@, <<pump[o].output>>)]
    /\ pump' = [pump EXCEPT ![o].pc = "fanout"]
    /\ UNCHANGED <<config, sessions, waiter, mu, kill, conn, att, rdr, ret>>
    /\ UNCHANGED <<bufVars, inVars, now>>

\* a mutant of the fan-out: a message written to a connection also starts a
\* new read deadline for it
PumpFanOutResetsDeadline(o) ==
    /\ pump[o].pc = "fanout"
    /\ conn' = [c \in Conns |->
                  IF c \in sess[o].connections
                    THEN Delivered(c, OutputMsg(o, <<pump[o].output>>, "pump"))
                    ELSE conn[c]]
    /\ sess' = [sess EXCEPT ![o].connections = {c \in @ : ~conn[c].closed},
                            ![o].LastActive = now]
    /\ pump' = [pump EXCEPT ![o].pc = "select"]
    /\ rdr' = [c \in Conns |->
                 IF c \in sess[o].connections /\ rdr[c] = "late" THEN "reading" ELSE rdr[c]]
    /\ UNCHANGED <<config, sessions, waiter, mu, kill, att, ret>>
    /\ UNCHANGED <<bufVars, inVars, now>>

\* the fan-out loop under connMu.RLock: WriteJSON of the chunk to every
\* connection of the set; a connection whose send fails is deleted from the
\* set and closed; then session.LastActive = time.Now()
PumpFanOut(o) ==
    /\ pump[o].pc = "fanout"
    /\ conn' = [c \in Conns |->
                  IF c \in sess[o].connections
                    THEN Delivered(c, OutputMsg(o, <<pump[o].output>>, "pump"))
                    ELSE conn[c]]
    /\ sess' = [sess EXCEPT ![o].connections = {c \in @ : ~conn[c].closed},
                            ![o].LastActive = now]
    /\ pump' = [pump EXCEPT ![o].pc = "select"]
    /\ UNCHANGED <<config, sessions, waiter, mu, kill, att, rdr, ret>>
    /\ UNCHANGED <<bufVars, inVars, now>>

\* The fan-out loop step by step.  session.connMu.RLock(): the range over
\* session.connections begins
PumpRLock(o) ==
    /\ pump[o].pc = "fanout"
    /\ pump' = [pump EXCEPT ![o].pc = "range", ![o].todo = sess[o].connections]
    /\ UNCHANGED <<config, sessions, sess, waiter, mu, kill, conn, att, rdr, ret>>
    /\ UNCHANGED <<bufVars, inVars, now>>

\* the range yields its next connection and conn.WriteJSON(msg) is entered
PumpSendBegin(o, c) ==
    /\ pump[o].pc = "range"
    /\ pump[o].to = NoOne
    /\ c \in pump[o].todo
    /\ pump' = [pump EXCEPT ![o].to = c, ![o].todo = @ \ {c}]
    /\ UNCHANGED <<config, sessions, sess, waiter, mu, kill, conn, att, rdr, ret>>
    /\ UNCHANGED <<bufVars, inVars, now>>

\* a mutant of the send: the pump looks its session up in the table, under
\* s.mu.RLock, before conn.WriteJSON returns
PumpSendEndLooksUp(o) ==
    /\ pump[o].pc = "range"
    /\ pump[o].to # NoOne
    /\ mu = NoOne
    /\ LET c == pump[o].to IN
         /\ conn' = [conn EXCEPT ![c] =
                       Delivered(c, OutputMsg(o, <<pump[o].output>>, "pump"))]
         /\ sess' = IF conn[c].closed
                      THEN [sess EXCEPT ![o].connections = @ \ {c}] ELSE sess
    /\ pump' = [pump EXCEPT ![o].to = NoOne]
    /\ UNCHANGED <<config, sessions, waiter, mu, kill, att, rdr, ret>>
    /\ UNCHANGED <<bufVars, inVars, now>>

\* conn.WriteJSON(msg) returns: the message is on the wire, or, on a closed
\* connection, the error: delete(session.connections, conn); conn.Close()
PumpSendEnd(o) ==
    /\ pump[o].pc = "range"
    /\ pump[o].to # NoOne
    /\ LET c == pump[o].to IN
         /\ conn' = [conn EXCEPT ![c] =
                       Delivered(c, OutputMsg(o, <<pump[o].output>>, "pump"))]
         /\ sess' = IF conn[c].closed
                      THEN [sess EXCEPT ![o].connections = @ \ {c}] ELSE sess
    /\ pump' = [pump EXCEPT ![o].to = NoOne]
    /\ UNCHANGED <<config, sessions, waiter, mu, kill, att, rdr, ret>>
    /\ UNCHANGED <<bufVars, inVars, now>>

\* the range is over: session.connMu.RUnlock(); session.LastActive = time.Now()
PumpRUnlock(o) ==
    /\ pump[o].pc = "range"
    /\ pump[o].to = NoOne
    /\ pump[o].todo = {}
    /\ sess' = [sess EXCEPT ![o].LastActive = now]
    /\ pump' = [pump EXCEPT ![o].pc = "select"]
    /\ UNCHANGED <<config, sessions, waiter, mu, kill, conn, att, rdr, ret>>
    /\ UNCHANGED <<bufVars, inVars, now>>

\* a mutant of the deferred function: the status is left as it is
PumpDeferKeepsStatus(o) ==
    /\ pump[o].pc = "defer"
    /\ sess' = [sess EXCEPT ![o].ptyClosed = TRUE]
    /\ pump' = [pump EXCEPT ![o].pc = "done"]
    /\ UNCHANGED <<config, sessions, waiter, mu, kill, conn, att, rdr, ret>>
    /\ UNCHANGED <<bufVars, inVars, now>>

\* the deferred function: session.pty.Close(); session.Status = StatusStopped
PumpDefer(o) ==
    /\ pump[o].pc = "defer"
    /\ sess' = [sess EXCEPT ![o].ptyClosed = TRUE, ![o].Status = StatusStopped]
    /\ pump' = [pump EXCEPT ![o].pc = "done"]
    /\ UNCHANGED <<config, sessions, waiter, mu, kill, conn, att, rdr, ret>>
    /\ UNCHANGED <<bufVars, inVars, now>>

----------------------------------------------------------------------------
(* AttachWebSocket(sessionID, conn), called by the Stream handler for a      *)
(* freshly upgraded connection c                                             *)

\* a mutant of the failure path: the Stream handler leaves the connection open
AttachFailsLeavesOpen(c, sessionID, err) ==
    /\ att' = [att EXCEPT ![c] = [pc |-> "failed", id |-> sessionID, ref |-> 0,
                                  buffer |-> <<>>, err |-> err]]
    /\ UNCHANGED conn

\* AttachWebSocket returns err: the Stream handler closes the connection
AttachFails(c, sessionID, err) ==
    /\ att' = [att EXCEPT ![c] = [pc |-> "failed", id |-> sessionID, ref |-> 0,
                                  buffer |-> <<>>, err |-> err]]
    /\ conn' = [conn EXCEPT ![c].closed = TRUE]

\* s.GetSession(sessionID), under s.mu.RLock
AttachGet(c, sessionID) ==
    /\ att[c].pc = "idle"
    /\ mu = NoOne
    /\ IF GetSession(sessionID) = 0
         THEN AttachFails(c, sessionID, "NotFound")
         ELSE /\ att' = [att EXCEPT ![c] = [pc |-> "got", id |-> sessionID,
                                            ref |-> GetSession(sessionID),
                                            buffer |-> <<>>, err |-> ""]]
              /\ UNCHANGED conn
    /\ UNCHANGED <<config, sessions, sess, pump, waiter, mu, kill, rdr, ret>>
    /\ UNCHANGED <<bufVars, inVars, now>>

\* if session.Status != StatusRunning { return error }, with no lock held
AttachCheck(c) ==
    /\ att[c].pc = "got"
    /\ IF sess[att[c].ref].Status # StatusRunning
         THEN AttachFails(c, att[c].id, "NotRunning")
         ELSE /\ att' = [att EXCEPT ![c].pc = "checked"]
              /\ UNCHANGED conn
    /\ UNCHANGED <<config, sessions, sess, pump, waiter, mu, kill, rdr, ret>>
    /\ UNCHANGED <<bufVars, inVars, now>>

\* session.connections[conn] = true, under connMu.Lock
AttachAdd(c) ==
    /\ att[c].pc = "checked"
    /\ ConnMuFree(att[c].ref)
    /\ sess' = [sess EXCEPT ![att[c].ref].connections = @ \cup {c}]
    /\ att' = [att EXCEPT ![c].pc = "added"]
    /\ UNCHANGED <<config, sessions, pump, waiter, mu, kill, conn, rdr, ret>>
    /\ UNCHANGED <<bufVars, inVars, now>>

\* a mutant of the welcome step: no welcome message is written
AttachNoWelcome(c) ==
    /\ att[c].pc = "added"
    /\ att' = [att EXCEPT ![c].pc = "welcomed"]
    /\ UNCHANGED <<config, sessions, sess, pump, waiter, mu, kill, conn, rdr, ret>>
    /\ UNCHANGED <<bufVars, inVars, now>>

\* conn.WriteJSON(welcomeMsg); a failure is only logged
AttachWelcome(c) ==
    /\ att[c].pc = "added"
    /\ conn' = [conn EXCEPT ![c] = Delivered(c, OutputMsg(att[c].ref, <<Banner>>, "attach"))]
    /\ att' = [att EXCEPT ![c].pc = "welcomed"]
    /\ UNCHANGED <<config, sessions, sess, pump, waiter, mu, kill, rdr, ret>>
    /\ UNCHANGED <<bufVars, inVars, now>>

\* buffer := session.outputBuf.Read(); with len(buffer) == 0 nothing is sent:
\* go s.handleWebSocketMessages(session, conn); return nil
AttachReadBuf(c) ==
    /\ att[c].pc = "welcomed"
    /\ LET buffer == CBRead(sess[att[c].ref].outputBuf) IN
         IF Len(buffer) > 0
           THEN /\ att' = [att EXCEPT ![c].pc = "snapshot", ![c].buffer = buffer]
                /\ UNCHANGED rdr
           ELSE /\ att' = [att EXCEPT ![c].pc = "done"]
                /\ rdr' = [rdr EXCEPT ![c] = "reading"]
    /\ UNCHANGED <<config, sessions, sess, pump, waiter, mu, kill, conn, ret>>
    /\ UNCHANGED <<bufVars, inVars, now>>

\* conn.WriteJSON(msg) with Data: string(buffer), a failure only logged; then
\* go s.handleWebSocketMessages(session, conn); return nil
AttachSendBuf(c) ==
    /\ att[c].pc = "snapshot"
    /\ conn' = [conn EXCEPT ![c] = Delivered(c, OutputMsg(att[c].ref, att[c].buffer, "attach"))]
    /\ att' = [att EXCEPT ![c].pc = "done"]
    /\ rdr' = [rdr EXCEPT ![c] = "reading"]
    /\ UNCHANGED <<config, sessions, sess, pump, waiter, mu, kill, ret>>
    /\ UNCHANGED <<bufVars, inVars, now>>

----------------------------------------------------------------------------
(* handleWebSocketMessages(session, conn): the inbound reader of connection c *)

\* a mutant of the reader's deferred function: the connection is closed but
\* stays in the session's set
ReaderExitNoDetach(c) ==
    /\ rdr[c] = "reading"
    /\ conn' = [conn EXCEPT ![c].closed = TRUE]
    /\ rdr' = [rdr EXCEPT ![c] = "gone"]
    /\ UNCHANGED <<config, sessions, sess, pump, waiter, mu, kill, att, ret>>
    /\ UNCHANGED <<bufVars, inVars, now>>

\* conn.ReadJSON fails (the connection was closed, the peer went away, or the
\* read deadline passed), the loop breaks and the deferred function runs:
\* delete(session.connections, conn) under connMu.Lock; conn.Close()
ReaderExit(c) ==
    /\ rdr[c] = "reading"
    /\ ConnMuFree(att[c].ref)
    /\ sess' = [sess EXCEPT ![att[c].ref].connections = @ \ {c}]
    /\ conn' = [conn EXCEPT ![c].closed = TRUE]
    /\ rdr' = [rdr EXCEPT ![c] = "gone"]
    /\ UNCHANGED <<config, sessions, pump, waiter, mu, kill, att, ret>>
    /\ UNCHANGED <<bufVars, inVars, now>>

----------------------------------------------------------------------------
(* Spec: one registered session, its tasks, two KillSession callers and two  *)
(* connections being attached, interleaved step by step                      *)

\* the state right after CreateSession("u1", "bash", ...) returned session s1
Init ==
    /\ now = 0
    /\ cb = NewCircularBuffer(1)
    /\ written = <<>>
    /\ lastWrite = <<>>
    /\ config = DefaultConfig
    /\ sessions = [id \in IDs |-> IF id = "s1" THEN 1 ELSE 0]
    /\ sess = <<NewSession("s1", "u1", <<"bash">>)>>
    /\ pump = <<NewPump>>
    /\ waiter = <<"waiting">>
    /\ mu = NoOne
    /\ kill = [k \in Killers |-> IdleKill]
    /\ conn = [c \in Conns |-> [closed |-> FALSE, recv |-> <<>>]]
    /\ att = [c \in Conns |-> IdleAttach]
    /\ rdr = [c \in Conns |-> "none"]
    /\ ret = [op |-> "Create", user |-> "u1", cmd |-> <<"bash">>, err |-> ""]
    /\ snd = [c \in Conns |-> IdleSend]
    /\ inb = NoMessage

\* The callers are numbered in the order of their calls: k1 is the KillSession
\* caller that takes s.mu first, c1 the connection whose AttachWebSocket looks
\* its session up first.
Earlier(x) == IF x = "k2" THEN {"k1"} ELSE IF x = "c2" THEN {"c1"} ELSE {}

Next ==
    \/ \E k \in Killers, id \in IDs :
          /\ \A j \in Earlier(k) : kill[j].pc # "idle"
          /\ KillLock(k, id)
    \/ \E k \in Killers : KillFinish(k)
    \/ \E o \in Objs : ProcessExit(o)
    \/ \E o \in Objs : ExitWaiter(o)
    \/ \E o \in Objs : PumpSelect(o)
    \/ \E o \in Objs : PumpReadData(o)
    \/ \E o \in Objs : PumpReadTimeout(o)
    \/ \E o \in Objs : PumpReadEOF(o)
    \/ \E o \in Objs : PumpReadError(o)
    \/ \E o \in Objs : PumpBufWrite(o)
    \/ \E o \in Objs : PumpFanOut(o)
    \/ \E o \in Objs : PumpDefer(o)
    \/ \E c \in Conns, id \in IDs :
          /\ \A j \in Earlier(c) : att[j].pc # "idle"
          /\ AttachGet(c, id)
    \/ \E c \in Conns : AttachCheck(c)
    \/ \E c \in Conns : AttachAdd(c)
    \/ \E c \in Conns : AttachWelcome(c)
    \/ \E c \in Conns : AttachReadBuf(c)
    \/ \E c \in Conns : AttachSendBuf(c)
    \/ \E c \in Conns : ReaderExit(c)

Spec == Init /\ [][Next]_vars

----------------------------------------------------------------------------
(* Claims about KillSession, AttachWebSocket and the output pump *)

RECURSIVE Flatten(_)
\* the data of a sequence of messages, concatenated
Flatten(ms) == IF ms = <<>> THEN <<>> ELSE Head(ms).data \o Flatten(Tail(ms))

IsPtyByte(b) == b # Banner

\* the PTY bytes written to connection c, in the order of their arrival
PtyStream(c) == SelectSeq(Flatten(conn[c].recv), IsPtyByte)

IsFromAttach(m) == m.by = "attach"

\* the messages AttachWebSocket itself wrote to connection c
AttachSent(c) == SelectSeq(conn[c].recv, IsFromAttach)

\* C5: once KillSession(id) has returned success, GetSession(id) finds nothing,
\* the session's token is cancelled, and every connection that was in the
\* session's connection set while Kill ran is closed.
C5_KillPostcondition ==
    \A k \in Killers :
       kill[k].res = "ok" =>
          /\ GetSession(kill[k].id) = 0
          /\ sess[kill[k].obj].cancelled
          /\ \A c \in kill[k].closed : conn[c].closed

\* C5 witness: a Kill returned success after closing a connection that an
\* AttachWebSocket call had attached and seeded with a snapshot.
C5_Witness ==
    \E k \in Killers, c \in Conns :
       /\ kill[k].res = "ok"
       /\ c \in kill[k].closed
       /\ att[c].pc = "done"
       /\ att[c].buffer # <<>>

\* C6: of two KillSession calls on the registered session s1, at most one
\* returns success, and when both have returned exactly one did and the other
\* found nothing; no session has its kill steps carried out by two callers.
C6_OneKillerWins ==
    /\ \A j, k \in Killers :
          (j # k /\ kill[j].id = kill[k].id /\ kill[j].res = "ok") => kill[k].res # "ok"
    /\ \A j, k \in Killers :
          (j # k /\ kill[j].obj # 0 /\ kill[j].pc # "idle") => kill[k].obj # kill[j].obj
    /\ (\A k \in Killers : kill[k].pc = "done" /\ kill[k].id = "s1")
          => /\ \E k \in Killers : kill[k].res = "ok"
             /\ \E k \in Killers : kill[k].res = "NotFound"

\* C6 witness: both callers killed s1; the first returned success, the second,
\* which had to wait for s.mu, returned not-found.
C6_Witness ==
    /\ kill["k1"].id = "s1" /\ kill["k1"].res = "ok"
    /\ kill["k2"].id = "s1" /\ kill["k2"].res = "NotFound"

\* C7 (as claimed): once KillSession has returned, no open connection remains
\* in the killed session's connection set.
C7_NoOpenConnOnDeadSession ==
    \A k \in Killers :
       kill[k].res = "ok" =>
          \A c \in sess[kill[k].obj].connections : conn[c].closed

\* C8 (as claimed): no PTY byte reaches a connection twice.
C8_NoChunkTwice ==
    \A c \in Conns :
       \A i, j \in 1..Len(PtyStream(c)) :
          i # j => PtyStream(c)[i] # PtyStream(c)[j]

\* C9 (as claimed): the PTY bytes written to a connection never step back: no
\* byte arrives after a byte the PTY produced later.
C9_PtyOrderKept ==
    \A c \in Conns :
       \A i, j \in 1..Len(PtyStream(c)) :
          i < j => PtyStream(c)[i] <= PtyStream(c)[j]

FannedOut(o) ==
    IF pump[o].pc \in {"write", "fanout", "range"} THEN sess[o].nread - 1 ELSE sess[o].nread

\* C34: a connection whose attach has returned and which is still open (no
\* send to it failed, nobody closed it) has received every chunk the pump has
\* read and fanned out, in its snapshot or as a live message, whenever the
\* snapshot was read before the ring buffer had overwritten anything.
C34_NoOutputLost ==
    \A c \in Conns :
       (/\ att[c].pc = "done" /\ ~conn[c].closed
        /\ att[c].buffer = <<>> \/ att[c].buffer[1] = 1)
          => \A k \in 1..FannedOut(att[c].ref) :
                \E i \in 1..Len(PtyStream(c)) : PtyStream(c)[i] = k

\* C34 witness: c2 attached while the pump was between its two chunks: the
\* first chunk reached it in the snapshot, the second as a live message of
\* the pump, and it is open and attached to the Running session.
C34_Witness ==
    /\ att["c2"].pc = "done" /\ ~conn["c2"].closed /\ "c2" \in sess[1].connections
    /\ att["c2"].buffer = <<1>>
    /\ sess[1].nread = 2 /\ FannedOut(1) = 2
    /\ sess[1].Status = StatusRunning
    /\ PtyStream("c2") = <<1, 2>>
    /\ conn["c2"].recv[Len(conn["c2"].recv)].by = "pump"

\* C31: an AttachWebSocket call fails with not-found exactly when its lookup
\* finds no table entry for the ID, and with not-running exactly when the
\* session it found is not Running at its status check; a call that fails
\* changes no session, puts its connection into no set, writes nothing to it
\* and starts no reader, and the Stream handler closes the connection; nothing
\* happens to that connection afterwards.
C31_AttachErrors ==
    [][\A c \in Conns :
          /\ (att[c].pc = "idle" /\ att'[c] # att[c])
                => /\ att'[c].err = "NotFound" <=> sessions[att'[c].id] = 0
                   /\ att'[c].err = "NotFound" <=> att'[c].pc = "failed"
          /\ (att[c].pc = "got" /\ att'[c] # att[c])
                => /\ att'[c].err = "NotRunning"
                        <=> sess[att[c].ref].Status # StatusRunning
                   /\ att'[c].err = "NotRunning" <=> att'[c].pc = "failed"
          /\ (att[c].pc # "failed" /\ att'[c].pc = "failed")
                => /\ sess' = sess /\ sessions' = sessions
                   /\ conn'[c].recv = <<>> /\ conn'[c].closed
                   /\ rdr'[c] = "none"
                   /\ \A o \in Objs : c \notin sess'[o].connections
          /\ att[c].pc = "failed"
                => /\ att'[c] = att[c] /\ conn'[c] = conn[c] /\ rdr'[c] = "none"
                   /\ \A o \in Objs : c \notin sess'[o].connections]_vars

\* C31 witness: the attach of c1 failed with not-found for an ID that is not
\* in the table, and the attach of c2 failed with not-running on the session
\* whose process had exited and which is still in the table; both connections
\* are closed, empty, in no set and without a reader.
C31_Witness ==
    /\ att["c1"].pc = "failed" /\ att["c1"].err = "NotFound" /\ att["c1"].id = "s2"
    /\ att["c2"].pc = "failed" /\ att["c2"].err = "NotRunning" /\ att["c2"].id = "s1"
    /\ sessions["s1"] = 1 /\ sessions["s2"] = 0
    /\ sess[1].Status # StatusRunning
    /\ \A c \in Conns : /\ conn[c].closed /\ conn[c].recv = <<>> /\ rdr[c] = "none"
                         /\ c \notin sess[1].connections

----------------------------------------------------------------------------
(* SpecFanOut: one session with both connections attached, and sends that   *)
(* fail on connections that are still open                                  *)

\* a mutant of the fan-out loop: the first failed send ends the loop, and the
\* connections that did not fail are not written to
PumpFanOutAborting(o) ==
    /\ pump[o].pc = "fanout"
    /\ \E failed \in SUBSET {c \in sess[o].connections : ~conn[c].closed} :
          /\ failed # {}
          /\ conn' = [c \in Conns |->
                        IF c \in failed THEN [conn[c] EXCEPT !.closed = TRUE] ELSE conn[c]]
          /\ sess' = [sess EXCEPT ![o].connections = {c \in @ : c \notin failed},
                                  ![o].LastActive = now]
    /\ pump' = [pump EXCEPT ![o].pc = "select"]
    /\ UNCHANGED <<config, sessions, waiter, mu, kill, att, rdr, ret>>
    /\ UNCHANGED <<bufVars, inVars, now>>

\* the fan-out loop when conn.WriteJSON returns an error on some connections
\* that are still open (the peer is gone, the network failed): each of them is
\* deleted from the set and closed, and the loop goes on to the next one
PumpFanOutFailing(o) ==
    /\ pump[o].pc = "fanout"
    /\ \E failed \in SUBSET {c \in sess[o].connections : ~conn[c].closed} :
          /\ failed # {}
          /\ conn' = [c \in Conns |->
                        IF c \in failed THEN [conn[c] EXCEPT !.closed = TRUE]
                        ELSE IF c \in sess[o].connections
                          THEN Delivered(c, OutputMsg(o, <<pump[o].output>>, "pump"))
                          ELSE conn[c]]
          /\ sess' = [sess EXCEPT
                        ![o].connections = {c \in @ : ~conn[c].closed /\ c \notin failed},
                        ![o].LastActive = now]
    /\ pump' = [pump EXCEPT ![o].pc = "select"]
    /\ UNCHANGED <<config, sessions, waiter, mu, kill, att, rdr, ret>>
    /\ UNCHANGED <<bufVars, inVars, now>>

\* the state after CreateSession("u1", "bash", ...) returned session s1 and
\* AttachWebSocket returned for both connections, before any PTY output
InitFanOut ==
    /\ now = 0
    /\ cb = NewCircularBuffer(1)
    /\ written = <<>>
    /\ lastWrite = <<>>
    /\ config = DefaultConfig
    /\ sessions = [id \in IDs |-> IF id = "s1" THEN 1 ELSE 0]
    /\ sess = <<[NewSession("s1", "u1", <<"bash">>) EXCEPT !.connections = Conns]>>
    /\ pump = <<NewPump>>
    /\ waiter = <<"waiting">>
    /\ mu = NoOne
    /\ kill = [k \in Killers |-> IdleKill]
    /\ conn = [c \in Conns |->
                 [closed |-> FALSE, recv |-> <<OutputMsg(1, <<Banner>>, "attach")>>]]
    /\ att = [c \in Conns |-> [pc |-> "done", id |-> "s1", ref |-> 1, buffer |-> <<>>,
                               err |-> ""]]
    /\ rdr = [c \in Conns |-> "reading"]
    /\ ret = [op |-> "Create", user |-> "u1", cmd |-> <<"bash">>, err |-> ""]
    /\ snd = [c \in Conns |-> IdleSend]
    /\ inb = NoMessage

NextFanOut ==
    \/ \E o \in Objs : PumpSelect(o)
    \/ \E o \in Objs : PumpReadData(o)
    \/ \E o \in Objs : PumpReadTimeout(o)
    \/ \E o \in Objs : PumpReadEOF(o)
    \/ \E o \in Objs : PumpReadError(o)
    \/ \E o \in Objs : PumpBufWrite(o)
    \/ \E o \in Objs : PumpFanOut(o)
    \/ \E o \in Objs : PumpFanOutFailing(o)
    \/ \E o \in Objs : PumpDefer(o)
    \/ \E o \in Objs : ProcessExit(o)
    \/ \E o \in Objs : ExitWaiter(o)
    \/ \E c \in Conns : ReaderExit(c)
    \/ \E id \in IDs : KillLock("k1", id)
    \/ KillFinish("k1")

SpecFanOut == InitFanOut /\ [][NextFanOut]_vars

\* C11: a chunk the pump has read goes to the buffer and then to the fan-out,
\* nothing else; the fan-out writes it as one output message to every
\* connection of the session's set; a connection whose send fails is removed
\* from the set and closed and receives nothing, every other connection of the
\* set receives the chunk and stays, connections outside the set are not
\* touched, and the session's status is as it was.
C11_FanOutIsolatesFailure ==
    [][\A o \in Objs :
          /\ (pump[o].pc = "write" /\ pump'[o] # pump[o])
                => pump'[o] = [pump[o] EXCEPT !.pc = "fanout"]
          /\ (pump[o].pc = "fanout" /\ pump'[o] # pump[o])
                => /\ sess'[o].Status = sess[o].Status
                   /\ \A c \in sess[o].connections :
                         \/ /\ conn'[c].recv =
                                 Append(conn[c].recv,
                                        OutputMsg(o, <<pump[o].output>>, "pump"))
                            /\ ~conn'[c].closed
                            /\ c \in sess'[o].connections
                         \/ /\ conn'[c].recv = conn[c].recv
                            /\ conn'[c].closed
                            /\ c \notin sess'[o].connections
                   /\ \A c \in Conns \ sess[o].connections : conn'[c] = conn[c]
                   /\ sess'[o].connections \subseteq sess[o].connections]_vars

\* C11 witness: with the session Running and not killed, the send of a chunk
\* failed on c1, which is closed and out of the set while its reader has not
\* run yet, and c2 received that chunk and is still attached and open.
C11_Witness ==
    /\ sessions["s1"] = 1
    /\ kill["k1"].pc = "idle"
    /\ sess[1].Status = StatusRunning
    /\ conn["c1"].closed /\ rdr["c1"] = "reading" /\ "c1" \notin sess[1].connections
    /\ ~conn["c2"].closed /\ "c2" \in sess[1].connections
    /\ Len(conn["c2"].recv) = Len(conn["c1"].recv) + 1

\* C28: the reader whose read fails takes its connection out of its session's
\* set, leaving the other members in, and closes it, touching no other
\* connection; once the reader is gone its connection is in no set and
\* nothing more is written to it.
C28_ReaderDetachesOnExit ==
    [][\A c \in Conns :
          /\ (rdr[c] = "reading" /\ rdr'[c] = "gone")
                => /\ conn'[c].closed
                   /\ sess'[att[c].ref].connections = sess[att[c].ref].connections \ {c}
                   /\ \A d \in Conns \ {c} : conn'[d] = conn[d]
          /\ rdr[c] = "gone"
                => /\ conn'[c] = conn[c]
                   /\ \A o \in Objs : c \notin sess'[o].connections]_vars

\* C28 witness: the reader of c1 is gone, c1 is closed and out of the set; c2
\* is still attached and open and has since received a chunk from the pump of
\* the Running session.
C28_Witness ==
    /\ rdr["c1"] = "gone" /\ conn["c1"].closed
    /\ sess[1].connections = {"c2"}
    /\ ~conn["c2"].closed /\ rdr["c2"] = "reading"
    /\ sess[1].Status = StatusRunning
    /\ Len(conn["c1"].recv) = 1
    /\ Len(conn["c2"].recv) = 2

\* C27 (as claimed): s.mu is held only around the table operation: a
\* KillSession caller that has cancelled the token, closed the PTY and killed
\* the process, and is about to close the connections, does not hold s.mu.
C27_LockOnlyAroundTable ==
    \A k \in Killers : kill[k].pc = "locked" => mu # k

----------------------------------------------------------------------------
(* Claims about the session status *)

\* C12 (as claimed): Stopped and Error are terminal: a status that is Stopped
\* or Error is the same after every step of KillSession, the exit waiter and
\* the pump.
C12_TerminalStatusNeverChanges ==
    [][\A o \in Objs :
          sess[o].Status \in {StatusStopped, StatusError}
             => sess'[o].Status = sess[o].Status]_vars

\* C13 (as claimed): the status becomes Error only from Running and only in
\* the pump's step that returns on a read error; a read timeout leaves the
\* status as it was.
C13_ErrorOnlyFromRunning ==
    [][\A o \in Objs :
          /\ (sess'[o].Status = StatusError /\ sess[o].Status # StatusError)
                => /\ sess[o].Status = StatusRunning
                   /\ pump[o].pc = "read" /\ pump'[o].pc = "defer"
          /\ (pump[o].pc = "read" /\ pump'[o].pc = "select")
                => sess'[o].Status = sess[o].Status]_vars

\* C14 (as claimed): a read error of the pump of a Running session sets that
\* session's status to Error and touches no other session or pump, and the
\* status is still Error when the pump, on its way out, has run its deferred
\* function.
C14_ReadFaultStaysError ==
    [][\A o \in Objs :
          /\ (PumpReadError(o) /\ sess[o].Status = StatusRunning)
                => /\ sess'[o].Status = StatusError
                   /\ \A p \in Objs \ {o} : sess'[p] = sess[p] /\ pump'[p] = pump[p]
          /\ (sess[o].Status = StatusError /\ pump[o].pc = "defer" /\ pump'[o].pc = "done")
                => sess'[o].Status = StatusError]_vars

----------------------------------------------------------------------------
(* The clock, CleanupStaleSessions and Shutdown *)

\* time passes
Tick ==
    /\ now < MaxNow
    /\ now' = now + 1
    /\ UNCHANGED <<config, sessions, sess, pump, waiter, mu, kill, conn, att, rdr, ret>>
    /\ UNCHANGED <<bufVars, inVars>>

\* the table keys whose session CleanupStaleSessions evicts:
\* now.Sub(session.LastActive) > timeout, with timeout := 1 * time.Hour
Stale == {id \in IDs : sessions[id] # 0 /\ now - sess[sessions[id]].LastActive > Hour}

\* a mutant of the reaper: the stale sessions are cancelled and their
\* processes killed, but their entries stay in the table
CleanupStaleSessionsKeepsEntries ==
    /\ mu = NoOne
    /\ sess' = [o \in Objs |->
                  IF \E id \in Stale : sessions[id] = o
                    THEN [sess[o] EXCEPT !.cancelled = TRUE, !.ptyClosed = TRUE,
                                         !.proc = "exited"]
                    ELSE sess[o]]
    /\ UNCHANGED <<config, sessions, pump, waiter, mu, kill, conn, att, rdr, ret>>
    /\ UNCHANGED <<bufVars, inVars, now>>

\* CleanupStaleSessions(), the whole call under s.mu.Lock: for every stale
\* session cancel(), pty.Close(), Process.Kill() and delete(s.sessions, id).
\* Status and the connections are not touched.
CleanupStaleSessions ==
    /\ mu = NoOne
    /\ sess' = [o \in Objs |->
                  IF \E id \in Stale : sessions[id] = o
                    THEN [sess[o] EXCEPT !.cancelled = TRUE, !.ptyClosed = TRUE,
                                         !.proc = "exited"]
                    ELSE sess[o]]
    /\ sessions' = [id \in IDs |-> IF id \in Stale THEN 0 ELSE sessions[id]]
    /\ UNCHANGED <<config, pump, waiter, mu, kill, conn, att, rdr, ret>>
    /\ UNCHANGED <<bufVars, inVars, now>>

\* Shutdown(), the whole call under s.mu.Lock: for every session of the table
\* cancel(), pty.Close() and Process.Kill(); then s.sessions is a new empty
\* map.  Status and the connections are not touched.
Shutdown ==
    /\ mu = NoOne
    /\ sess' = [o \in Objs |->
                  IF o \in Registered
                    THEN [sess[o] EXCEPT !.cancelled = TRUE, !.ptyClosed = TRUE,
                                         !.proc = "exited"]
                    ELSE sess[o]]
    /\ sessions' = [id \in IDs |-> 0]
    /\ UNCHANGED <<config, pump, waiter, mu, kill, conn, att, rdr, ret>>
    /\ UNCHANGED <<bufVars, inVars, now>>

----------------------------------------------------------------------------
(* SpecReaper: an empty table under every configured session timeout; one   *)
(* user creating sessions whose PTYs stay silent, one connection attaching, *)
(* the clock, reaper passes and Shutdown                                    *)

\* The PTYs being silent, every outputBuf is empty and AttachWebSocket returns
\* after the welcome message, without a snapshot.
InitReaper ==
    /\ cb = NewCircularBuffer(1)
    /\ written = <<>>
    /\ lastWrite = <<>>
    /\ \E t \in 1..MaxTimeout : New([DefaultConfig EXCEPT !.SessionTimeout = t])

NextReaper ==
    \/ CreateSession("u1", <<"ls">>)
    \/ Tick
    \/ CleanupStaleSessions
    \/ Shutdown
    \/ \E id \in IDs : AttachGet("c1", id)
    \/ AttachCheck("c1")
    \/ AttachAdd("c1")
    \/ AttachWelcome("c1")
    \/ AttachReadBuf("c1")
    \/ ReaderExit("c1")

SpecReaper == InitReaper /\ [][NextReaper]_vars

\* C15 (as claimed): a reaper pass removes a session of the table exactly when
\* the time since its LastActive exceeds the configured SessionTimeout.
C15_ReapsByConfiguredTimeout ==
    [][CleanupStaleSessions =>
          \A id \in IDs :
             sessions[id] # 0 =>
                (sessions'[id] = 0
                   <=> now - sess[sessions[id]].LastActive > config.SessionTimeout)]_vars

\* C16 (as claimed): for every session a reaper pass evicts, the token is
\* cancelled, the PTY closed, the process terminated, every connection of its
\* set closed and the table entry gone when the pass returns.
C16_ReaperKillsLikeKill ==
    [][CleanupStaleSessions =>
          \A id \in IDs :
             (sessions[id] # 0 /\ sessions'[id] = 0) =>
                /\ sess'[sessions[id]].cancelled
                /\ sess'[sessions[id]].ptyClosed
                /\ sess'[sessions[id]].proc = "exited"
                /\ \A c \in sess[sessions[id]].connections : conn'[c].closed]_vars

\* C17 (as claimed): when Shutdown returns the table is empty and, for every
\* session that was registered, the token is cancelled, the PTY closed, the
\* process terminated and every connection of its set closed.
C17_ShutdownKillsLikeKill ==
    [][Shutdown =>
          /\ \A id \in IDs : sessions'[id] = 0
          /\ \A o \in Registered :
                /\ sess'[o].cancelled
                /\ sess'[o].ptyClosed
                /\ sess'[o].proc = "exited"
                /\ \A c \in sess[o].connections : conn'[c].closed]_vars

----------------------------------------------------------------------------
(* ListSessions *)

\* the empty userID
NoUser == ""

\* a mutant of ListSessions: the owner is not compared, every session of the
\* table is returned
ListSessionsUnfiltered(userID) ==
    /\ mu = NoOne
    /\ ret' = [op |-> "List", user |-> userID, cmd |-> <<>>, err |-> "",
               list |-> Registered]
    /\ UNCHANGED <<config, sessions, sess, pump, waiter, mu, kill, conn, att, rdr>>
    /\ UNCHANGED <<bufVars, inVars, now>>

\* ListSessions(userID), under s.mu.RLock: the sessions of the table with
\* session.UserID == userID, returned to the caller (as a set: the order of the
\* slice is the map's iteration order)
ListSessions(userID) ==
    /\ mu = NoOne
    /\ ret' = [op |-> "List", user |-> userID, cmd |-> <<>>, err |-> "",
               list |-> {o \in Registered : sess[o].UserID = userID}]
    /\ UNCHANGED <<config, sessions, sess, pump, waiter, mu, kill, conn, att, rdr>>
    /\ UNCHANGED <<bufVars, inVars, now>>

----------------------------------------------------------------------------
(* SpecList: two users creating sessions, kills, and ListSessions calls with *)
(* each user and with the empty userID                                       *)

InitList ==
    /\ cb = NewCircularBuffer(1)
    /\ written = <<>>
    /\ lastWrite = <<>>
    /\ New(DefaultConfig)

NextList ==
    \/ \E u \in Users : CreateSession(u, <<"ls">>)
    \/ \E id \in IDs : KillLock("k1", id)
    \/ KillFinish("k1")
    \/ KillReturn("k1")
    \/ \E u \in Users \cup {NoUser} : ListSessions(u)

SpecList == InitList /\ [][NextList]_vars

\* C18: ListSessions(userID) with a non-empty userID returns exactly the
\* sessions of the table owned by userID: every session returned is a table
\* entry owned by userID, and every table entry owned by userID is returned.
C18_ListReturnsOwned ==
    [][\A u \in Users :
          ListSessions(u) =>
             /\ \A o \in ret'.list :
                   sess[o].UserID = u /\ \E id \in IDs : sessions[id] = o
             /\ \A id \in IDs :
                   (sessions[id] # 0 /\ sess[sessions[id]].UserID = u)
                      => sessions[id] \in ret'.list]_vars

\* C18 witness: with one session of u1 and one of u2 in the table,
\* ListSessions("u1") has just returned the one session of u1.
C18_Witness ==
    /\ ret.op = "List" /\ ret.user = "u1"
    /\ Cardinality(ret.list) = 1
    /\ \A o \in ret.list : sess[o].UserID = "u1" /\ o \in Registered
    /\ \E o \in Registered : sess[o].UserID = "u2"
    /\ Cardinality(Registered) = 2

\* C19 (as claimed): ListSessions with the empty userID returns all the
\* sessions of the table, whoever owns them.
C19_ListAllWhenNoUser ==
    [][ListSessions(NoUser) => ret'.list = Registered]_vars

----------------------------------------------------------------------------
(* SendInput(sessionID, input), as called by the inbound reader of          *)
(* connection c with the ID of its session                                  *)

\* s.GetSession(sessionID), under s.mu.RLock; on a miss the not-found error
SendGet(c) ==
    /\ snd[c].pc = "call"
    /\ mu = NoOne
    /\ snd' = [snd EXCEPT ![c] =
                 IF GetSession(snd[c].id) = 0
                   THEN [@ EXCEPT !.pc = "done", !.res = "NotFound"]
                   ELSE [@ EXCEPT !.pc = "got", !.obj = GetSession(snd[c].id)]]
    /\ UNCHANGED <<config, sessions, sess, pump, waiter, mu, kill, conn, att, rdr, ret>>
    /\ UNCHANGED <<bufVars, inb, now>>

\* a mutant of the status check: the status is not looked at
SendCheckSkipped(c) ==
    /\ snd[c].pc = "got"
    /\ snd' = [snd EXCEPT ![c].pc = "checked"]
    /\ UNCHANGED <<config, sessions, sess, pump, waiter, mu, kill, conn, att, rdr, ret>>
    /\ UNCHANGED <<bufVars, inb, now>>

\* if session.Status != StatusRunning { return error }, with no lock held
SendCheck(c) ==
    /\ snd[c].pc = "got"
    /\ snd' = [snd EXCEPT ![c] =
                 IF sess[snd[c].obj].Status # StatusRunning
                   THEN [@ EXCEPT !.pc = "done", !.res = "NotRunning"]
                   ELSE [@ EXCEPT !.pc = "checked"]]
    /\ UNCHANGED <<config, sessions, sess, pump, waiter, mu, kill, conn, att, rdr, ret>>
    /\ UNCHANGED <<bufVars, inb, now>>

\* session.LastActive = time.Now(); session.pty.Write(input): the write fails
\* on a closed PTY, may fail once the process has exited, and otherwise the
\* PTY accepts the bytes
SendWrite(c) ==
    /\ snd[c].pc = "checked"
    /\ LET o == snd[c].obj IN
         \/ /\ ~sess[o].ptyClosed
            /\ sess' = [sess EXCEPT ![o].LastActive = now, ![o].ptyIn = @ + 1]
            /\ snd' = [snd EXCEPT ![c].pc = "done", ![c].res = "ok"]
         \/ /\ sess[o].ptyClosed \/ sess[o].proc = "exited"
            /\ sess' = [sess EXCEPT ![o].LastActive = now]
            /\ snd' = [snd EXCEPT ![c].pc = "done", ![c].res = "WriteFailed"]
    /\ UNCHANGED <<config, sessions, pump, waiter, mu, kill, conn, att, rdr, ret>>
    /\ UNCHANGED <<bufVars, inb, now>>

----------------------------------------------------------------------------
(* handleWebSocketMessages: the messages the reader of connection c reads   *)

\* inbound messages read in one behaviour
MaxMsgs == 3

\* 2^16: the range of the uint16 conversions of the resize case
TwoTo16 == 65536

\* the resize payloads sent: in range, with cols beyond uint16, not JSON at
\* all, and with a string where a number belongs
ResizePayloads ==
    { [json |-> TRUE, cols |-> JNum(100), rows |-> JNum(30)],
      [json |-> TRUE, cols |-> JNum(65636), rows |-> JNum(30)],
      NoPayload,
      [json |-> TRUE, cols |-> JStr, rows |-> JNum(30)] }

\* json.Unmarshal([]byte(msg.Data), &resizeData): an error for text that is
\* not JSON and for a string in an int field; an absent field leaves the zero
\* value
Unmarshal(p) ==
    IF ~p.json \/ p.cols.t = "str" \/ p.rows.t = "str"
      THEN [err |-> TRUE, Cols |-> 0, Rows |-> 0]
      ELSE [err |-> FALSE,
            Cols |-> IF p.cols.t = "num" THEN p.cols.n ELSE 0,
            Rows |-> IF p.rows.t = "num" THEN p.rows.n ELSE 0]

\* the conversion uint16(n) of a non-negative int
Uint16(n) == n % TwoTo16

\* the replies of the reader; by names the task that wrote them (history)
PongMsg(o) == [type |-> "pong", data |-> <<>>, session_id |-> sess[o].ID, by |-> "reader"]
ErrorMsg(o) == [type |-> "error", data |-> <<>>, session_id |-> sess[o].ID, by |-> "reader"]

\* conn.ReadJSON(&msg) returns a message of the given type and Data
ReaderRead(c, type, data) ==
    /\ rdr[c] = "reading"
    /\ ~conn[c].closed
    /\ inb.n < MaxMsgs
    /\ inb' = [n |-> inb.n + 1, conn |-> c, type |-> type, data |-> data]

\* case "input": s.SendInput(session.ID, []byte(msg.Data)) is called
ReaderInput(c) ==
    /\ ReaderRead(c, "input", NoPayload)
    /\ rdr' = [rdr EXCEPT ![c] = "input"]
    /\ snd' = [snd EXCEPT ![c] = [pc |-> "call", id |-> sess[att[c].ref].ID, obj |-> 0,
                                  res |-> ""]]
    /\ UNCHANGED <<config, sessions, sess, pump, waiter, mu, kill, conn, att, ret>>
    /\ UNCHANGED <<bufVars, now>>

\* SendInput has returned: on an error conn.WriteJSON(errorMsg); back to ReadJSON
ReaderInputReturn(c) ==
    /\ rdr[c] = "input"
    /\ snd[c].pc = "done"
    /\ conn' = [conn EXCEPT ![c] =
                  IF snd[c].res # "ok" THEN Delivered(c, ErrorMsg(att[c].ref)) ELSE @]
    /\ rdr' = [rdr EXCEPT ![c] = "reading"]
    /\ snd' = [snd EXCEPT ![c].pc = "returned"]
    /\ UNCHANGED <<config, sessions, sess, pump, waiter, mu, kill, att, ret>>
    /\ UNCHANGED <<bufVars, inb, now>>

\* case "resize": when the payload unmarshals, pty.Setsize with the rows and
\* columns converted to uint16; Setsize fails on a closed PTY, which is only
\* logged, as is a payload that does not unmarshal
ReaderResize(c, p) ==
    /\ ReaderRead(c, "resize", p)
    /\ LET resizeData == Unmarshal(p)
           o == att[c].ref
       IN  sess' = IF ~resizeData.err /\ ~sess[o].ptyClosed
                     THEN [sess EXCEPT ![o].rows = Uint16(resizeData.Rows),
                                       ![o].cols = Uint16(resizeData.Cols)]
                     ELSE sess
    /\ UNCHANGED <<config, sessions, pump, waiter, mu, kill, conn, att, rdr, ret>>
    /\ UNCHANGED <<bufVars, snd, now>>

\* case "ping": the pong message is built
ReaderPing(c) ==
    /\ ReaderRead(c, "ping", NoPayload)
    /\ rdr' = [rdr EXCEPT ![c] = "pong"]
    /\ UNCHANGED <<config, sessions, sess, pump, waiter, mu, kill, conn, att, ret>>
    /\ UNCHANGED <<bufVars, snd, now>>

\* a mutant of the pong reply: the pong goes to every connection of the session
ReaderPongToAll(c) ==
    /\ rdr[c] = "pong"
    /\ conn' = [d \in Conns |->
                  IF d \in sess[att[c].ref].connections
                    THEN Delivered(d, PongMsg(att[c].ref)) ELSE conn[d]]
    /\ rdr' = [rdr EXCEPT ![c] = "reading"]
    /\ UNCHANGED <<config, sessions, sess, pump, waiter, mu, kill, att, ret>>
    /\ UNCHANGED <<bufVars, inVars, now>>

\* conn.WriteJSON(pongMsg), a failure only logged; back to ReadJSON
ReaderPong(c) ==
    /\ rdr[c] = "pong"
    /\ conn' = [conn EXCEPT ![c] = Delivered(c, PongMsg(att[c].ref))]
    /\ rdr' = [rdr EXCEPT ![c] = "reading"]
    /\ UNCHANGED <<config, sessions, sess, pump, waiter, mu, kill, att, ret>>
    /\ UNCHANGED <<bufVars, inVars, now>>

\* default: a message of any other type is logged
ReaderUnknown(c) ==
    /\ ReaderRead(c, "other", NoPayload)
    /\ UNCHANGED <<config, sessions, sess, pump, waiter, mu, kill, conn, att, rdr, ret>>
    /\ UNCHANGED <<bufVars, snd, now>>

----------------------------------------------------------------------------
(* SpecInput: one session with both connections attached and a silent PTY;  *)
(* the reader of c1 reading input messages, with a kill, the process exit   *)
(* and the clock interleaved                                                *)

NextInput ==
    \/ ReaderInput("c1")
    \/ SendGet("c1")
    \/ SendCheck("c1")
    \/ SendWrite("c1")
    \/ ReaderInputReturn("c1")
    \/ \E c \in Conns : ReaderExit(c)
    \/ \E id \in IDs : KillLock("k1", id)
    \/ KillFinish("k1")
    \/ \E o \in Objs : ProcessExit(o)
    \/ \E o \in Objs : ExitWaiter(o)
    \/ \E o \in Objs : PumpSelect(o)
    \/ \E o \in Objs : PumpReadTimeout(o)
    \/ \E o \in Objs : PumpReadEOF(o)
    \/ \E o \in Objs : PumpReadError(o)
    \/ \E o \in Objs : PumpDefer(o)
    \/ Tick

SpecInput == InitFanOut /\ [][NextInput]_vars

\* C22: a SendInput call returns not-found exactly when its lookup finds no
\* table entry, and not-running exactly when the session it found is not
\* Running at its status check; a call that returns one of these errors has
\* written nothing to the PTY and has left every session, LastActive included,
\* as it was; the PTY accepts input only from a call that found its session
\* Running, and it accepts the input of such a call while the process runs.
C22_SendInputErrors ==
    [][\A c \in Conns :
          /\ (snd[c].pc = "call" /\ snd'[c] # snd[c])
                => /\ snd'[c].res = "NotFound" <=> sessions[snd[c].id] = 0
                   /\ snd'[c].res = "NotFound" => (snd'[c].pc = "done" /\ sess' = sess)
                   /\ snd'[c].res # "NotFound" => snd'[c].obj = sessions[snd[c].id]
          /\ (snd[c].pc = "got" /\ snd'[c] # snd[c])
                => /\ snd'[c].res = "NotRunning"
                        <=> sess[snd[c].obj].Status # StatusRunning
                   /\ snd'[c].res = "NotRunning" => (snd'[c].pc = "done" /\ sess' = sess)
                   /\ snd'[c].res # "NotRunning" => snd'[c].pc = "checked"
          /\ (snd[c].pc = "checked" /\ snd'[c] # snd[c]
                 /\ ~sess[snd[c].obj].ptyClosed /\ sess[snd[c].obj].proc = "running")
                => /\ snd'[c].res = "ok"
                   /\ sess'[snd[c].obj].ptyIn = sess[snd[c].obj].ptyIn + 1
          /\ \A o \in Objs :
                sess'[o].ptyIn # sess[o].ptyIn
                   => \E d \in Conns : /\ snd[d].pc = "checked" /\ snd[d].obj = o
                                       /\ snd'[d].res = "ok"]_vars

\* C22 witness: the session is still in the table but Stopped; an earlier input
\* was forwarded to the PTY, and the last SendInput, made after time had
\* passed, returned not-running, leaving the input count and LastActive alone.
C22_Witness ==
    /\ sessions["s1"] = 1
    /\ sess[1].Status = StatusStopped
    /\ snd["c1"].pc = "done" /\ snd["c1"].res = "NotRunning"
    /\ sess[1].ptyIn = 1
    /\ sess[1].LastActive < now

\* C23 (as claimed): LastActive is set to the current time by each of three
\* events: a SendInput call whose input the PTY accepted, the pump's fan-out
\* of a chunk it read, and an AttachWebSocket call that returns success.
C23_RefreshedOnInputOutputAttach ==
    [][/\ \A c \in Conns :
            (snd[c].pc = "checked" /\ snd'[c].res = "ok")
               => sess'[snd[c].obj].LastActive = now
       /\ \A o \in Objs :
            (pump[o].pc = "fanout" /\ pump'[o].pc # "fanout")
               => sess'[o].LastActive = now
       /\ \A c \in Conns :
            (att[c].pc # "done" /\ att'[c].pc = "done")
               => sess'[att[c].ref].LastActive = now]_vars

----------------------------------------------------------------------------
(* SpecDispatch: one session with both connections attached and a silent    *)
(* PTY; the readers reading resize, ping and other messages, with a kill    *)
(* and the process exit interleaved                                         *)

NextDispatch ==
    \/ \E c \in Conns, p \in ResizePayloads : ReaderResize(c, p)
    \/ \E c \in Conns : ReaderPing(c)
    \/ \E c \in Conns : ReaderPong(c)
    \/ \E c \in Conns : ReaderUnknown(c)
    \/ \E c \in Conns : ReaderExit(c)
    \/ \E id \in IDs : KillLock("k1", id)
    \/ KillFinish("k1")
    \/ \E o \in Objs : ProcessExit(o)
    \/ \E o \in Objs : ExitWaiter(o)
    \/ \E o \in Objs : PumpSelect(o)
    \/ \E o \in Objs : PumpReadTimeout(o)
    \/ \E o \in Objs : PumpReadEOF(o)
    \/ \E o \in Objs : PumpReadError(o)
    \/ \E o \in Objs : PumpDefer(o)

SpecDispatch == InitFanOut /\ [][NextDispatch]_vars

\* C24 (as claimed): a resize message whose payload is JSON with numbers for
\* cols and rows sets the geometry of the session's open PTY to those rows and
\* columns; a resize message whose payload does not unmarshal leaves every
\* session, the table and every connection as they were.
C24_ResizeSetsGeometry ==
    [][\A c \in Conns, p \in ResizePayloads :
          ReaderResize(c, p) =>
             IF p.json /\ p.cols.t = "num" /\ p.rows.t = "num"
               THEN ~sess[att[c].ref].ptyClosed
                       => /\ sess'[att[c].ref].rows = p.rows.n
                          /\ sess'[att[c].ref].cols = p.cols.n
               ELSE sess' = sess /\ sessions' = sessions /\ conn' = conn /\ rdr' = rdr]_vars

IsPong(m) == m.type = "pong"

\* C25: the reader that has read a ping writes one pong message to its own
\* connection (which fails only on a closed connection) and to no other, and
\* changes no session; a message of an unknown type changes no session, no
\* connection, no reader and not the table.
C25_DispatchByType ==
    [][\A c \in Conns :
          /\ ReaderPing(c)
                => rdr'[c] = "pong" /\ conn' = conn /\ sess' = sess
          /\ (rdr[c] = "pong" /\ rdr'[c] # "pong")
                => /\ rdr'[c] = "reading"
                   /\ conn'[c].recv = IF conn[c].closed THEN conn[c].recv
                                      ELSE Append(conn[c].recv, PongMsg(att[c].ref))
                   /\ conn'[c].closed = conn[c].closed
                   /\ \A d \in Conns \ {c} : conn'[d] = conn[d]
                   /\ sess' = sess
          /\ ReaderUnknown(c)
                => /\ sess' = sess /\ sessions' = sessions
                   /\ conn' = conn /\ rdr' = rdr]_vars

\* C25 witness: c1 has received exactly one pong for its ping and c2 none; the
\* last message read was of an unknown type, and both connections are still
\* attached to the Running session.
C25_Witness ==
    /\ inb.type = "other" /\ inb.n >= 2
    /\ Len(SelectSeq(conn["c1"].recv, IsPong)) = 1
    /\ Len(SelectSeq(conn["c2"].recv, IsPong)) = 0
    /\ sess[1].connections = Conns
    /\ sess[1].Status = StatusRunning
    /\ \A c \in Conns : ~conn[c].closed /\ rdr[c] = "reading"

----------------------------------------------------------------------------
(* SpecLive: one session with c1 attached and c2 still to attach; the tasks *)
(* of the session are scheduled fairly, while the process, the callers and  *)
(* the peers act when they choose to                                        *)

\* the state after CreateSession("u1", "bash", ...) returned session s1 and
\* AttachWebSocket returned for c1
InitLive ==
    /\ now = 0
    /\ cb = NewCircularBuffer(1)
    /\ written = <<>>
    /\ lastWrite = <<>>
    /\ config = DefaultConfig
    /\ sessions = [id \in IDs |-> IF id = "s1" THEN 1 ELSE 0]
    /\ sess = <<[NewSession("s1", "u1", <<"bash">>) EXCEPT !.connections = {"c1"}]>>
    /\ pump = <<NewPump>>
    /\ waiter = <<"waiting">>
    /\ mu = NoOne
    /\ kill = [k \in Killers |-> IdleKill]
    /\ conn = [c \in Conns |->
                 [closed |-> FALSE,
                  recv |-> IF c = "c1" THEN <<OutputMsg(1, <<Banner>>, "attach")>>
                           ELSE <<>>]]
    /\ att = [c \in Conns |->
                 IF c = "c1" THEN [pc |-> "done", id |-> "s1", ref |-> 1, buffer |-> <<>>,
                                   err |-> ""]
                 ELSE IdleAttach]
    /\ rdr = [c \in Conns |-> IF c = "c1" THEN "reading" ELSE "none"]
    /\ ret = [op |-> "Create", user |-> "u1", cmd |-> <<"bash">>, err |-> ""]
    /\ snd = [c \in Conns |-> IdleSend]
    /\ inb = NoMessage

\* the steps of the output pump of session object o
PumpStep(o) ==
    /\ o \in Objs
    /\ \/ PumpSelect(o)
       \/ PumpReadTimeout(o)
       \/ PumpReadEOF(o)
       \/ PumpReadError(o)
       \/ PumpDefer(o)

\* the steps of an AttachWebSocket call after its lookup
AttachStep(c) ==
    \/ AttachCheck(c)
    \/ AttachAdd(c)
    \/ AttachWelcome(c)
    \/ AttachReadBuf(c)

\* the steps of a reader that do not wait for the peer: a SendInput call, its
\* return, and a read on a connection that was closed on this side
ReaderStep(c) ==
    \/ SendGet(c)
    \/ SendCheck(c)
    \/ SendWrite(c)
    \/ ReaderInputReturn(c)
    \/ (conn[c].closed /\ ReaderExit(c))

\* nothing is read for a while: most of the 60 seconds of the read deadline
\* of connection c are over
ReaderIdle(c) ==
    /\ rdr[c] = "reading"
    /\ ~conn[c].closed
    /\ rdr' = [rdr EXCEPT ![c] = "late"]
    /\ UNCHANGED <<config, sessions, sess, pump, waiter, mu, kill, conn, att, ret>>
    /\ UNCHANGED <<bufVars, inVars, now>>

\* before the deadline passes the peer sends a message of some other type: it
\* is logged, and conn.SetReadDeadline starts another 60 seconds
ReaderKeepAlive(c) ==
    /\ rdr[c] = "late"
    /\ ~conn[c].closed
    /\ rdr' = [rdr EXCEPT ![c] = "reading"]
    /\ UNCHANGED <<config, sessions, sess, pump, waiter, mu, kill, conn, att, ret>>
    /\ UNCHANGED <<bufVars, inVars, now>>

\* the read deadline passes, or the connection was closed meanwhile: ReadJSON
\* fails, the loop breaks and the deferred function runs
ReaderTimeout(c) ==
    /\ rdr[c] = "late"
    /\ ConnMuFree(att[c].ref)
    /\ sess' = [sess EXCEPT ![att[c].ref].connections = @ \ {c}]
    /\ conn' = [conn EXCEPT ![c].closed = TRUE]
    /\ rdr' = [rdr EXCEPT ![c] = "gone"]
    /\ UNCHANGED <<config, sessions, pump, waiter, mu, kill, att, ret>>
    /\ UNCHANGED <<bufVars, inVars, now>>

\* what ends a reader's wait for the peer: a message or the deadline
ReaderWake(c) == ReaderKeepAlive(c) \/ ReaderTimeout(c)

NextLive ==
    \/ \E o \in Objs : PumpStep(o)
    \/ \E o \in Objs : ProcessExit(o)
    \/ \E o \in Objs : ExitWaiter(o)
    \/ \E id \in IDs : KillLock("k1", id)
    \/ KillFinish("k1")
    \/ \E id \in IDs : AttachGet("c2", id)
    \/ AttachStep("c2")
    \/ ReaderInput("c1")
    \/ \E c \in Conns : ReaderStep(c)
    \/ \E c \in Conns : ReaderExit(c)
    \/ \E c \in Conns : ReaderIdle(c)
    \/ \E c \in Conns : ReaderWake(c)

\* Goroutines that can take a step do take one, and time passes for a reader
\* that waits: it gets a message or its deadline.  A process, a caller and a
\* peer owe no step.
FairLive ==
    /\ WF_vars(PumpStep(1))
    /\ WF_vars(ExitWaiter(1))
    /\ WF_vars(KillFinish("k1"))
    /\ WF_vars(AttachStep("c2"))
    /\ \A c \in Conns : WF_vars(ReaderStep(c))
    /\ \A c \in Conns : WF_vars(ReaderIdle(c))
    /\ \A c \in Conns : WF_vars(ReaderWake(c))

SpecLive == InitLive /\ [][NextLive]_vars /\ FairLive

\* C26 (as claimed): once KillSession has returned for the session, its pump
\* and its exit waiter eventually are done, and the reader of every connection
\* that an AttachWebSocket call put or is putting into its set eventually is
\* gone.
C26_TasksEndAfterKill ==
    (kill["k1"].res = "ok")
       ~> /\ pump[1].pc = "done"
          /\ waiter[1] = "done"
          /\ \A c \in Conns :
                (att[c].ref = 1 /\ att[c].pc # "failed") => rdr[c] = "gone"

\* C29: once the session's process has exited, the status eventually is
\* Stopped for good; a status that is not Running is never Running again, and
\* the status checks of SendInput and AttachWebSocket then fail with
\* not-running; the exit waiter never takes or releases s.mu.
C29_ExitLeadsToStopped ==
    /\ (sess[1].proc = "exited") ~> [](sess[1].Status = StatusStopped)
    /\ [][/\ sess[1].Status # StatusRunning => sess'[1].Status # StatusRunning
          /\ \A c \in Conns :
               (snd[c].pc = "got" /\ snd'[c] # snd[c]
                   /\ sess[snd[c].obj].Status # StatusRunning)
                  => snd'[c].res = "NotRunning"
          /\ \A c \in Conns :
               (att[c].pc = "got" /\ att'[c] # att[c]
                   /\ sess[att[c].ref].Status # StatusRunning)
                  => att'[c].err = "NotRunning"
          /\ waiter'[1] # waiter[1] => (mu' = mu /\ mu \in Killers \cup {NoOne})]_vars

\* C29 witness: the process exited on its own, the waiter and the pump are
\* done and the status is Stopped; a SendInput on c1 and the attach of c2,
\* both made to the session still in the table, failed with not-running.
C29_Witness ==
    /\ sess[1].proc = "exited" /\ kill["k1"].pc = "idle"
    /\ sessions["s1"] = 1
    /\ waiter[1] = "done" /\ pump[1].pc = "done"
    /\ sess[1].Status = StatusStopped
    /\ snd["c1"].res = "NotRunning"
    /\ att["c2"].err = "NotRunning"

\* C30 (as claimed): a session whose process has exited, with no KillSession
\* called, is eventually out of the table.
C30_ExitRemovesSession ==
    (sess[1].proc = "exited" /\ kill["k1"].pc = "idle") ~> (sessions["s1"] = 0)

\* the tasks whose next step assigns session.Status of object o with no lock
\* held: the exit waiter once cmd.Wait has returned, and the pump at its
\* read-error return and in its deferred function
StatusWriters(o) ==
    {t \in {"waiter"} : waiter[o] = "waiting" /\ sess[o].proc = "exited"}
       \cup {t \in {"pump"} :
                \/ pump[o].pc = "defer"
                \/ pump[o].pc = "read" /\ (sess[o].ptyClosed \/ sess[o].proc = "exited")}

\* the calls whose next step reads session.Status of object o with no lock
\* held: the status checks of SendInput and of AttachWebSocket
StatusReaders(o) ==
    {<<"SendInput", c>> : c \in {d \in Conns : snd[d].pc = "got" /\ snd[d].obj = o}}
       \cup {<<"AttachWebSocket", c>> :
                c \in {d \in Conns : att[d].pc = "got" /\ att[d].ref = o}}

\* the tasks whose next step assigns session.LastActive of object o with no
\* lock held: SendInput after its status check, and the pump at the end of
\* its fan-out
LastActiveWriters(o) ==
    {<<"SendInput", c>> : c \in {d \in Conns : snd[d].pc = "checked" /\ snd[d].obj = o}}
       \cup {t \in {<<"pump", o>>} : pump[o].pc \in {"fanout", "range"}}

\* C36 (as claimed): a task that is about to write a session's Status or
\* LastActive without holding a lock is the only task about to access that
\* field without a lock.
C36_NoUnlockedRace ==
    \A o \in Objs :
       /\ StatusWriters(o) # {}
             => Cardinality(StatusWriters(o)) = 1 /\ StatusReaders(o) = {}
       /\ Cardinality(LastActiveWriters(o)) <= 1

----------------------------------------------------------------------------
(* SpecLocks: the locks step by step.  One session with c1 attached and c2  *)
(* still to attach; the pump's fan-out loop holds connMu from PumpRLock to  *)
(* PumpRUnlock, and KillSession, AttachWebSocket and the readers wait for   *)
(* it; KillSession and Shutdown take s.mu                                   *)

NextLocks ==
    \/ Shutdown
    \/ \E id \in IDs : KillLock("k1", id)
    \/ KillFinish("k1")
    \/ \E o \in Objs : ProcessExit(o)
    \/ \E o \in Objs : ExitWaiter(o)
    \/ \E o \in Objs : PumpSelect(o)
    \/ \E o \in Objs : PumpReadData(o)
    \/ \E o \in Objs : PumpReadTimeout(o)
    \/ \E o \in Objs : PumpReadEOF(o)
    \/ \E o \in Objs : PumpReadError(o)
    \/ \E o \in Objs : PumpBufWrite(o)
    \/ \E o \in Objs : PumpRLock(o)
    \/ \E o \in Objs, c \in Conns : PumpSendBegin(o, c)
    \/ \E o \in Objs : PumpSendEnd(o)
    \/ \E o \in Objs : PumpRUnlock(o)
    \/ \E o \in Objs : PumpDefer(o)
    \/ \E id \in IDs : AttachGet("c2", id)
    \/ AttachCheck("c2")
    \/ AttachAdd("c2")
    \/ AttachWelcome("c2")
    \/ AttachReadBuf("c2")
    \/ AttachSendBuf("c2")
    \/ ReaderPing("c1")
    \/ ReaderPong("c1")
    \/ \E c \in Conns : ReaderExit(c)

SpecLocks == InitLive /\ [][NextLocks]_vars

\* the steps of a pump that holds connMu for reading
PumpRange(o) ==
    \/ \E c \in Conns : PumpSendBegin(o, c)
    \/ PumpSendEnd(o)
    \/ PumpRUnlock(o)

\* C37: no task that holds a lock waits for a lock held by a task that waits.
\* A pump that holds connMu needs no other lock: its next step is always
\* possible and it never takes s.mu or touches the table.  A KillSession
\* caller at connMu.Lock holds s.mu, took it while holding nothing, and enters
\* as soon as no fan-out holds connMu.  s.mu is taken only by tasks that hold
\* no connMu, so the order is always s.mu, then connMu.
C37_DeadlockFree ==
    /\ [](\A o \in Objs : pump[o].pc = "range" => ENABLED PumpRange(o))
    /\ [](\A k \in Killers :
            kill[k].pc = "locked"
               => /\ mu = k
                  /\ ConnMuFree(kill[k].obj) => ENABLED KillFinish(k))
    /\ [](mu # NoOne => kill[mu].pc = "locked")
    /\ [][/\ \A o \in Objs :
               (pump[o].pc = "range" /\ pump'[o] # pump[o])
                  => mu' = mu /\ sessions' = sessions /\ kill' = kill
          /\ (mu = NoOne /\ mu' # NoOne) => kill[mu'].pc = "idle"]_vars

\* C37 witness: a KillSession caller holds s.mu and waits at connMu.Lock
\* while the pump, inside its fan-out loop, is sending to c1; the attach of c2
\* waits for connMu as well.
C37_Witness ==
    /\ kill["k1"].pc = "locked" /\ mu = "k1"
    /\ pump[1].pc = "range" /\ pump[1].to = "c1"
    /\ att["c2"].pc = "checked"
    /\ ~ENABLED KillFinish("k1")
    /\ ~ENABLED AttachAdd("c2")

\* C35 (as claimed): two tasks never write to a connection at once: while a
\* pump is inside its conn.WriteJSON call on a connection, no welcome or
\* snapshot of AttachWebSocket and no pong or error reply of the reader is
\* written to that connection.
C35_OneWriterPerConnection ==
    [][\A o \in Objs, c \in Conns :
          (pump[o].to = c /\ pump'[o].to = c) => conn'[c].recv = conn[c].recv]_vars

----------------------------------------------------------------------------
(* SpecFrame: two sessions of two users, each with one connection attached  *)
(* and a silent PTY; two KillSession callers, the process exits, the pumps  *)
(* and the readers                                                          *)

\* the state after CreateSession returned s1 for u1 and s2 for u2, and
\* AttachWebSocket returned for c1 on s1 and for c2 on s2
InitFrame ==
    /\ now = 0
    /\ cb = NewCircularBuffer(1)
    /\ written = <<>>
    /\ lastWrite = <<>>
    /\ config = DefaultConfig
    /\ sessions = [id \in IDs |-> IF id = "s1" THEN 1 ELSE 2]
    /\ sess = <<[NewSession("s1", "u1", <<"bash">>) EXCEPT !.connections = {"c1"}],
                [NewSession("s2", "u2", <<"bash">>) EXCEPT !.connections = {"c2"}]>>
    /\ pump = <<NewPump, NewPump>>
    /\ waiter = <<"waiting", "waiting">>
    /\ mu = NoOne
    /\ kill = [k \in Killers |-> IdleKill]
    /\ conn = [c \in Conns |->
                 [closed |-> FALSE,
                  recv |-> <<OutputMsg(IF c = "c1" THEN 1 ELSE 2, <<Banner>>, "attach")>>]]
    /\ att = [c \in Conns |->
                 IF c = "c1"
                   THEN [pc |-> "done", id |-> "s1", ref |-> 1, buffer |-> <<>>, err |-> ""]
                   ELSE [pc |-> "done", id |-> "s2", ref |-> 2, buffer |-> <<>>, err |-> ""]]
    /\ rdr = [c \in Conns |-> "reading"]
    /\ ret = [op |-> "Create", user |-> "u2", cmd |-> <<"bash">>, err |-> ""]
    /\ snd = [c \in Conns |-> IdleSend]
    /\ inb = NoMessage

NextFrame ==
    \/ \E k \in Killers, id \in IDs : KillLock(k, id)
    \/ \E k \in Killers : KillFinish(k)
    \/ \E k \in Killers : KillReturn(k)
    \/ \E o \in Objs : ProcessExit(o)
    \/ \E o \in Objs : ExitWaiter(o)
    \/ \E o \in Objs : PumpSelect(o)
    \/ \E o \in Objs : PumpReadTimeout(o)
    \/ \E o \in Objs : PumpReadEOF(o)
    \/ \E o \in Objs : PumpReadError(o)
    \/ \E o \in Objs : PumpDefer(o)
    \/ \E c \in Conns : ReaderExit(c)

SpecFrame == InitFrame /\ [][NextFrame]_vars

\* C32: a KillSession call changes only the session registered under its ID:
\* every other session object (status, token, PTY, connection set), every
\* other table entry, every connection outside the killed session's set and
\* every task are as they were; a call with an ID that is not in the table
\* returns the not-found error and changes nothing but its own result.
C32_KillTouchesOnlyItsSession ==
    [][\A k \in Killers :
          (kill[k].pc \in {"idle", "locked"} /\ kill'[k] # kill[k])
             => /\ kill'[k].res = "NotFound"
                     => /\ sessions[kill'[k].id] = 0
                        /\ sessions' = sessions /\ sess' = sess /\ conn' = conn
                        /\ pump' = pump /\ waiter' = waiter /\ rdr' = rdr
                        /\ att' = att /\ mu' = mu
                /\ kill'[k].res # "NotFound"
                     => /\ kill'[k].obj = sessions[kill'[k].id]
                        /\ \A p \in Objs \ {kill'[k].obj} : sess'[p] = sess[p]
                        /\ \A i \in IDs \ {kill'[k].id} : sessions'[i] = sessions[i]
                        /\ \A c \in Conns \ sess[kill'[k].obj].connections :
                              conn'[c] = conn[c]
                        /\ pump' = pump /\ waiter' = waiter /\ rdr' = rdr
                        /\ att' = att]_vars

\* C32 witness: s1 was killed and a second Kill of s1 found nothing, while s2
\* is still registered and Running with a live token, an open PTY, a running
\* process and its connection attached and open.
C32_Witness ==
    /\ kill["k1"].id = "s1" /\ kill["k1"].res = "ok"
    /\ kill["k2"].id = "s1" /\ kill["k2"].res = "NotFound"
    /\ sessions["s1"] = 0 /\ sess[1].cancelled /\ conn["c1"].closed
    /\ sessions["s2"] = 2
    /\ sess[2].Status = StatusRunning /\ ~sess[2].cancelled /\ ~sess[2].ptyClosed
    /\ sess[2].proc = "running"
    /\ sess[2].connections = {"c2"} /\ ~conn["c2"].closed

----------------------------------------------------------------------------
(* SpecIDs: CreateSession calls at instants of a nanosecond clock, the ID of *)
(* each being the one generateSessionID computes from the instant            *)

\* a second in nanoseconds (time.Now().Unix()), and the modulus that
\* generateSessionID applies to time.Now().UnixNano()
NanosPerSecond == 1000000000
IDModulus == 1000000

\* generateSessionID() at the instant t, in nanoseconds since the epoch:
\* fmt.Sprintf("sess_%d_%d", time.Now().Unix(), time.Now().UnixNano()%1000000),
\* as the pair of the two numbers printed
generateSessionID(t) == <<t \div NanosPerSecond, t % IDModulus>>

\* the instants at which the clock of SpecIDs is read: the first nanosecond
\* of a second, the next one, and the two a millisecond after them
Instants == {0, 1, IDModulus, IDModulus + 1}

\* the names of the table keys for the strings generated at these instants:
\* sess_0_0 is s1, sess_0_1 is s2
IDName(g) == IF g = <<0, 0>> THEN "s1" ELSE "s2"

\* the clock advances to a later instant
Advance(t) ==
    /\ t > now
    /\ now' = t
    /\ UNCHANGED <<config, sessions, sess, pump, waiter, mu, kill, conn, att, rdr, ret>>
    /\ UNCHANGED <<bufVars, inVars>>

\* CreateSession called at the instant now, the clock having advanced since
\* the last session was created: the session is registered under
\* generateSessionID()
CreateNow(userID, command) ==
    /\ \A o \in Objs : sess[o].LastActive < now
    /\ CreateSession(userID, command)
    /\ \A id \in IDs :
          sessions'[id] # sessions[id] => id = IDName(generateSessionID(now))

InitIDs ==
    /\ cb = NewCircularBuffer(1)
    /\ written = <<>>
    /\ lastWrite = <<>>
    /\ New(DefaultConfig)

NextIDs ==
    \/ \E u \in Users : CreateNow(u, <<"ls">>)
    \/ \E t \in Instants : Advance(t)
    \/ \E o \in Objs : ProcessExit(o)
    \/ \E o \in Objs : ExitWaiter(o)

SpecIDs == InitIDs /\ [][NextIDs]_vars

\* the keys of the table
Keys == {id \in IDs : sessions[id] # 0}

\* C33 (as claimed): a successful CreateSession adds exactly one entry to the
\* table and leaves every entry that was there in place: the generated ID
\* differs from every registered ID, also for two sessions created within
\* the same second.
C33_CreateAddsNewEntry ==
    [][\A u \in Users :
          (CreateNow(u, <<"ls">>) /\ ret'.err = "")
             => /\ \A id \in Keys : sessions'[id] = sessions[id]
                /\ Cardinality({id \in IDs : sessions'[id] # 0}) = Cardinality(Keys) + 1]_vars

----------------------------------------------------------------------------
(* SpecQuota: an empty table under every quota; two users creating sessions *)
(* KillSession, process exits and their waiters, the clock, reaper passes    *)
(* and Shutdown                                                              *)

InitQuota ==
    /\ cb = NewCircularBuffer(1)
    /\ written = <<>>
    /\ lastWrite = <<>>
    /\ \E n \in 1..MaxQuota : New([DefaultConfig EXCEPT !.MaxSessions = n])

NextQuota ==
    \/ \E u \in Users : CreateSession(u, <<"ls">>)
    \/ \E id \in IDs : KillLock("k1", id)
    \/ KillFinish("k1")
    \/ \E o \in Objs : ProcessExit(o)
    \/ \E o \in Objs : ExitWaiter(o)
    \/ Tick
    \/ CleanupStaleSessions
    \/ Shutdown

SpecQuota == InitQuota /\ [][NextQuota]_vars

\* C38: at any time, for every user, the table holds at most MaxSessions
\* Running sessions owned by that user.
C38_QuotaNeverExceeded ==
    \A u \in Users : RunningOwnedBy(u) <= config.MaxSessions

\* C38 witness: with a quota of one, u1's first session was evicted by a
\* reaper pass, u1 then created a second one, which is Running in the table,
\* and a further Create of u1 has just been rejected for quota.
C38_Witness ==
    /\ config.MaxSessions = 1
    /\ Len(sess) = 2 /\ sess[1].UserID = "u1" /\ sess[2].UserID = "u1"
    /\ sess[1].cancelled /\ kill["k1"].pc = "idle" /\ now > Hour
    /\ Registered = {2} /\ RunningOwnedBy("u1") = 1
    /\ ret.op = "Create" /\ ret.user = "u1" /\ ret.err = "QuotaExceeded"

\* C39: whenever s.mu is free, no session of the table has a cancelled
\* token: a lookup never returns a session that was already cancelled.
C39_TableHoldsLiveTokens ==
    mu = NoOne => \A id \in IDs : GetSession(id) # 0 => ~sess[GetSession(id)].cancelled

\* C39 witness: s.mu is free; one session was cancelled and removed by
\* KillSession and the other by a reaper pass, and a lookup of either ID
\* finds nothing.
C39_Witness ==
    /\ mu = NoOne
    /\ Len(sess) = 2 /\ sess[1].cancelled /\ sess[2].cancelled
    /\ kill["k1"].pc = "done" /\ kill["k1"].res = "ok"
    /\ \E o \in Objs : o # kill["k1"].obj /\ sess[o].Status = StatusRunning
    /\ \A id \in IDs : GetSession(id) = 0

----------------------------------------------------------------------------
(* SpecDeadline: one Running session with both connections attached, the    *)
(* pump streaming the PTY's output to them, and the read deadline of each    *)
(* reader: peers that send a message in time or stay silent                  *)

NextDeadline ==
    \/ \E o \in Objs : PumpSelect(o)
    \/ \E o \in Objs : PumpReadData(o)
    \/ \E o \in Objs : PumpReadTimeout(o)
    \/ \E o \in Objs : PumpBufWrite(o)
    \/ \E o \in Objs : PumpFanOut(o)
    \/ \E c \in Conns : ReaderPing(c)
    \/ \E c \in Conns : ReaderPong(c)
    \/ \E c \in Conns : ReaderIdle(c)
    \/ \E c \in Conns : ReaderKeepAlive(c)
    \/ \E c \in Conns : ReaderTimeout(c)

\* The pump and a reader's reply run when they can; for a reader that waits,
\* time passes, and its wait ends with a message or with the deadline.  A
\* peer owes no message.
FairDeadline ==
    /\ WF_vars(\E o \in Objs : PumpSelect(o) \/ PumpBufWrite(o) \/ PumpFanOut(o))
    /\ \A c \in Conns : WF_vars(ReaderPong(c))
    /\ \A c \in Conns : WF_vars(ReaderIdle(c))
    /\ \A c \in Conns : WF_vars(ReaderWake(c))

SpecDeadline == InitFanOut /\ [][NextDeadline]_vars /\ FairDeadline

\* C40: a reader either keeps reading messages for ever, or its connection
\* is eventually detached and closed; it ends only when its deadline passes,
\* and then takes its own connection out of the set and closes it, touching
\* no other connection and not the session's status; the deadline passes
\* whatever the session and the pump do, and a message written to the
\* connection by the pump does not start a new deadline, while each message
\* read does.
C40_SilentConnectionDropped ==
    /\ \A c \in Conns :
          \/ []<><<ReaderKeepAlive(c)>>_vars
          \/ <>(rdr[c] = "gone" /\ conn[c].closed /\ c \notin sess[1].connections)
    /\ [](\A c \in Conns : rdr[c] = "late" => ENABLED ReaderTimeout(c))
    /\ [][\A c \in Conns :
             /\ (rdr[c] # "gone" /\ rdr'[c] = "gone")
                   => /\ rdr[c] = "late"
                      /\ conn'[c].closed
                      /\ sess'[1].connections = sess[1].connections \ {c}
                      /\ sess'[1].Status = sess[1].Status
                      /\ \A d \in Conns \ {c} : conn'[d] = conn[d]
             /\ pump' # pump => rdr'[c] = rdr[c]
             /\ ReaderKeepAlive(c) => rdr'[c] = "reading"]_vars

\* C40 witness: the reader of c1 is gone after its deadline passed: c1 is
\* closed and out of the set, having received a chunk from the pump; the
\* session is Running and the pump has since streamed another chunk to c2.
C40_Witness ==
    /\ rdr["c1"] = "gone" /\ conn["c1"].closed /\ "c1" \notin sess[1].connections
    /\ Len(conn["c1"].recv) = 2 /\ conn["c1"].recv[2].by = "pump"
    /\ sess[1].Status = StatusRunning /\ sess[1].proc = "running"
    /\ "c2" \in sess[1].connections /\ ~conn["c2"].closed
    /\ Len(conn["c2"].recv) = 3

====
